---- MODULE Spec2Model ----
(***************************************************************************)
(* State-machine model of the churrasco (gathering) server.                *)
(*                                                                         *)
(* The repository holds four variants of the server, and a run of the      *)
(* model is a run of one of them (variable variant):                       *)
(*   "part_001"  src/unnamed/part_001: MongoDB, users, X-User middleware   *)
(*   "part_000"  src/unnamed/part_000: MongoDB, no users                   *)
(*   "mongo"     src/server.js 156-346: MongoDB, no users                  *)
(*   "memory"    src/server.js 1-154: a Map in the process, no users       *)
(* Every action is one segment of a handler between two awaits: it         *)
(* performs at most one database or transport operation, so that requests  *)
(* interleave exactly where the event loop lets them interleave.  The      *)
(* handlers of the in-memory variant await nothing and are one step each.  *)
(*                                                                         *)
(* Text that the code takes apart (churrascoDate, hora) is a sequence of   *)
(* one-character strings, and a JSON number in its place is the word       *)
(* "number" followed by the characters of its decimal text; other text is  *)
(* an opaque string with "" standing for an absent or empty (falsy) value. *)
(* The values of a notification payload are records [kind, s, elems].  A   *)
(* JSON value that must be an array is a record [isArray, elems].  The     *)
(* result of Number is a double (IEEE 754, binary64) with its exact value, *)
(* and the arithmetic on numbers rounds as the arithmetic of doubles does. *)
(* A Date is its time value, kept as the day since 01/01/1970 UTC and the  *)
(* millisecond of that day.                                                *)
(***************************************************************************)
EXTENDS Integers, Sequences, FiniteSets, TLC

\* ------------------------------------------------------------------ bounds

\* Number of requests the clients issue in one run.
MaxReq == 2

\* --------------------------------------------------------- natural numbers

\* A natural number of any size is the sequence of its digits in base 2^15,
\* the lowest digit first, without a highest digit 0: <<>> is 0, <<1>> is 1,
\* <<0, 1>> is 32768.
Base == 2 ^ 15

RECURSIVE BigOf(_)
BigOf(n) == IF n = 0 THEN <<>> ELSE <<n % Base>> \o BigOf(n \div Base)

\* The value of a natural number below 2^30.
IntOf(a) ==
  IF a = <<>> THEN 0 ELSE IF Len(a) = 1 THEN a[1] ELSE a[1] + Base * a[2]

\* The digit i of a, 0 beyond its highest digit.
Limb(a, i) == IF i <= Len(a) THEN a[i] ELSE 0

\* a without its highest digits 0.
Trim(a) ==
  IF a = <<>> \/ a[Len(a)] # 0 THEN a
  ELSE IF \A i \in 1..Len(a) : a[i] = 0 THEN <<>>
  ELSE SubSeq(a, 1, CHOOSE n \in 1..Len(a) :
                      a[n] # 0 /\ \A i \in (n + 1)..Len(a) : a[i] = 0)

\* k digits 0
Zeros(k) == [i \in 1..k |-> 0]

\* a < b
BigLess(a, b) ==
  \/ Len(a) < Len(b)
  \/ /\ Len(a) = Len(b)
     /\ \E i \in 1..Len(a) : a[i] < b[i] /\ \A j \in (i + 1)..Len(a) : a[j] = b[j]

\* A carry comes into digit i of a + b: a digit below makes one and the
\* digits between pass it on.
CarryInto(a, b, i) ==
  \E j \in 1..(i - 1) :
    /\ Limb(a, j) + Limb(b, j) >= Base
    /\ \A k \in (j + 1)..(i - 1) : Limb(a, k) + Limb(b, k) = Base - 1

\* a + b (of two numbers below 2^30 as it is)
BigAdd(a, b) ==
  IF Len(a) <= 2 /\ Len(b) <= 2 THEN BigOf(IntOf(a) + IntOf(b))
  ELSE
  Trim([i \in 1..((IF Len(a) > Len(b) THEN Len(a) ELSE Len(b)) + 1) |->
          (Limb(a, i) + Limb(b, i) + (IF CarryInto(a, b, i) THEN 1 ELSE 0)) % Base])

\* Digit i of a - b borrows from the digits above: a digit below is short
\* and the digits between are equal.
BorrowInto(a, b, i) ==
  \E j \in 1..(i - 1) :
    /\ Limb(a, j) < Limb(b, j)
    /\ \A k \in (j + 1)..(i - 1) : Limb(a, k) = Limb(b, k)

\* a - b for a >= b
BigSub(a, b) ==
  IF Len(a) <= 2 THEN BigOf(IntOf(a) - IntOf(b))
  ELSE
  Trim([i \in 1..Len(a) |->
          (a[i] - Limb(b, i) - (IF BorrowInto(a, b, i) THEN 1 ELSE 0) + Base) % Base])

\* a * k for k below 2^15: the low halves of the products of the digits
\* and their high halves one digit up.
BigMulSmall(a, k) ==
  IF Len(a) <= 1 THEN BigOf(Limb(a, 1) * k)
  ELSE BigAdd([i \in 1..Len(a) |-> (a[i] * k) % Base],
              <<0>> \o [i \in 1..Len(a) |-> (a[i] * k) \div Base])

\* a * (the digits lo..hi of b, in their places)
RECURSIVE MulRange(_, _, _, _)
MulRange(a, b, lo, hi) ==
  IF lo = hi THEN Zeros(lo - 1) \o BigMulSmall(a, b[lo])
  ELSE BigAdd(MulRange(a, b, lo, (lo + hi) \div 2),
              MulRange(a, b, ((lo + hi) \div 2) + 1, hi))

\* a * b
BigMul(a, b) ==
  IF a = <<>> \/ b = <<>> THEN <<>>
  ELSE IF Len(b) = 1 THEN BigMulSmall(a, b[1])
  ELSE IF Len(a) = 1 THEN BigMulSmall(b, a[1])
  ELSE Trim(MulRange(a, b, 1, Len(b)))

BigSquare(a) == BigMul(a, a)

\* 10^k
RECURSIVE BigPow10(_)
BigPow10(k) ==
  IF k = 0 THEN <<1>>
  ELSE IF k % 2 = 1 THEN BigMulSmall(BigPow10(k - 1), 10)
  ELSE BigSquare(BigPow10(k \div 2))

\* The number of binary digits of a.
BitLen(a) ==
  IF a = <<>> THEN 0
  ELSE 15 * (Len(a) - 1)
         + (CHOOSE k \in 1..15 : a[Len(a)] < 2 ^ k /\ a[Len(a)] >= 2 ^ (k - 1))

\* a * 2^n
ShiftLeft(a, n) ==
  IF a = <<>> \/ n = 0 THEN a
  ELSE IF Len(a) <= 2 /\ BitLen(a) + n <= 30 THEN BigOf(IntOf(a) * (2 ^ n))
  ELSE LET p == 2 ^ (n % 15)
           q == 2 ^ (15 - (n % 15))
       IN  Trim(Zeros(n \div 15)
             \o [i \in 1..(Len(a) + 1) |->
                   ((Limb(a, i) * p) % Base) + (IF i > 1 THEN a[i - 1] \div q ELSE 0)])

\* a \div 2^n
ShiftRight(a, n) ==
  IF n = 0 THEN a
  ELSE IF n \div 15 >= Len(a) THEN <<>>
  ELSE IF Len(a) <= 2 THEN BigOf(IntOf(a) \div (2 ^ n))
  ELSE LET w == n \div 15
           p == 2 ^ (n % 15)
           q == 2 ^ (15 - (n % 15))
       IN  Trim([i \in 1..(Len(a) - w) |->
                   (a[i + w] \div p) + (Limb(a, i + w + 1) % p) * q])

\* The binary digit i of a (the lowest is digit 0) is 1.
TestBit(a, i) == (Limb(a, (i \div 15) + 1) \div (2 ^ (i % 15))) % 2 = 1

\* The binary digits of a below digit n are all 0.
LowBitsZero(a, n) ==
  /\ \A j \in 1..(n \div 15) : Limb(a, j) = 0
  /\ Limb(a, (n \div 15) + 1) % (2 ^ (n % 15)) = 0

\* The number of binary digits 0 at the low end of a # 0.
TrailingZeros(a) ==
  LET j == CHOOSE j \in 1..Len(a) : a[j] # 0 /\ \A i \in 1..(j - 1) : a[i] = 0
  IN  15 * (j - 1)
        + (CHOOSE t \in 0..14 : a[j] % (2 ^ (t + 1)) # 0 /\ a[j] % (2 ^ t) = 0)

\* The quotient digits 1..i of (r * 2^(15 i) + the digits 1..i of a) by d,
\* for d below 2^15, and the remainder of that division.
RECURSIVE QuotFrom(_, _, _, _)
QuotFrom(a, d, i, r) ==
  IF i = 0 THEN <<>>
  ELSE QuotFrom(a, d, i - 1, (r * Base + a[i]) % d) \o <<(r * Base + a[i]) \div d>>

RECURSIVE RemFrom(_, _, _, _)
RemFrom(a, d, i, r) ==
  IF i = 0 THEN r ELSE RemFrom(a, d, i - 1, (r * Base + a[i]) % d)

BigDivSmall(a, d) == Trim(QuotFrom(a, d, Len(a), 0))

BigModSmall(a, d) == RemFrom(a, d, Len(a), 0)

\* Long division in binary.  A state is what is left of the dividend (a),
\* the divisor in the place of the next quotient digit (cur, with
\* a < 2 * cur) and the quotient digits found (q); a step finds one digit.
DivideStep(st) ==
  IF BigLess(st.a, st.cur)
    THEN [a |-> st.a, cur |-> ShiftRight(st.cur, 1), q |-> ShiftLeft(st.q, 1)]
    ELSE [a |-> BigSub(st.a, st.cur), cur |-> ShiftRight(st.cur, 1),
          q |-> BigAdd(ShiftLeft(st.q, 1), <<1>>)]

\* n steps
RECURSIVE DivideSteps(_, _)
DivideSteps(st, n) == IF n = 0 THEN st ELSE DivideStep(DivideSteps(st, n - 1))

\* b times ten steps; when nothing is left the other digits are 0.
RECURSIVE DivideBlocks(_, _)
DivideBlocks(st, b) ==
  IF b = 0 THEN st
  ELSE IF st.a = <<>> THEN [st EXCEPT !.q = ShiftLeft(@, 10 * b)]
  ELSE DivideBlocks(DivideSteps(st, 10), b - 1)

\* ----------------------------------------------------------------- numbers

\* A JavaScript number, i.e. a double: NaN, +Infinity or -Infinity (inf,
\* with the sign neg), or the finite value (-1)^neg * m * 2^e, where m is a
\* natural number that is odd (so m and e are unique), or 0 with e = 0.
\* The doubles are the values with m < 2^53, e >= -1074 and
\* m * 2^e < 2^1024.
NaN == [nan |-> TRUE, inf |-> FALSE, neg |-> FALSE, m |-> <<>>, e |-> 0]

Infinity(neg) == [nan |-> FALSE, inf |-> TRUE, neg |-> neg, m |-> <<>>, e |-> 0]

Zero(neg) == [nan |-> FALSE, inf |-> FALSE, neg |-> neg, m |-> <<>>, e |-> 0]

\* The number of the exact value (-1)^neg * n * 2^e, for n # 0.
Shifted(neg, n, e, z) ==
  [nan |-> FALSE, inf |-> FALSE, neg |-> neg, m |-> ShiftRight(n, z), e |-> e + z]

Exact(neg, n, e) ==
  IF n = <<>> THEN Zero(neg) ELSE Shifted(neg, n, e, TrailingZeros(n))

\* The integer v (below 2^31 in magnitude) as a number.
Num(v) == IF v < 0 THEN Exact(TRUE, BigOf(-v), 0) ELSE Exact(FALSE, BigOf(v), 0)

IsFinite(x) == ~x.nan /\ ~x.inf

\* The double of q * 2^low or, with up, of (q + 1) * 2^low: Infinity from
\* 2^1024 on.
Rounded(neg, r, low) ==
  IF BitLen(r) + low > 1024 THEN Infinity(neg) ELSE Exact(neg, r, low)

\* The value n * 2^e, plus a rest below 2^e if sticky, cut to its binary
\* digits from 2^low up (sh = low - e > 0 digits are dropped) and rounded
\* to the nearest, a tie to the even one.
RoundAt(neg, n, sticky, low, sh, q) ==
  Rounded(neg,
          IF TestBit(n, sh - 1) /\ (sticky \/ ~LowBitsZero(n, sh - 1) \/ TestBit(q, 0))
            THEN BigAdd(q, <<1>>) ELSE q,
          low)

\* The double nearest to n * 2^e (plus a rest if sticky) for n # 0 with b
\* binary digits: a double keeps 53 binary digits and none below 2^-1074.
RoundBits(neg, n, e, sticky, low) ==
  IF low <= e THEN Rounded(neg, n, e)
  ELSE RoundAt(neg, n, sticky, low, low - e, ShiftRight(n, low - e))

RoundToDouble(neg, n, e, sticky) ==
  IF n = <<>> THEN Zero(neg)
  ELSE LET low == BitLen(n) + e - 53
       IN  RoundBits(neg, n, e, sticky, IF low > -1074 THEN low ELSE -1074)

\* -x
Negate(x) == IF x.nan THEN NaN ELSE [x EXCEPT !.neg = ~@]

\* The sum of the finite numbers with the magnitudes a * 2^e and b * 2^e
\* and the signs na and nb.
SumAligned(na, a, nb, b, e) ==
  IF na = nb THEN RoundToDouble(na, BigAdd(a, b), e, FALSE)
  ELSE IF a = b THEN Zero(FALSE)
  ELSE IF BigLess(a, b) THEN RoundToDouble(nb, BigSub(b, a), e, FALSE)
  ELSE RoundToDouble(na, BigSub(a, b), e, FALSE)

SumFinite(x, y, e) ==
  SumAligned(x.neg, ShiftLeft(x.m, x.e - e), y.neg, ShiftLeft(y.m, y.e - e), e)

\* x + y on doubles.
Plus(x, y) ==
  IF x.nan \/ y.nan THEN NaN
  ELSE IF x.inf /\ y.inf THEN (IF x.neg = y.neg THEN x ELSE NaN)
  ELSE IF x.inf THEN x
  ELSE IF y.inf THEN y
  ELSE IF x.m = <<>> /\ y.m = <<>> THEN Zero(x.neg /\ y.neg)
  ELSE IF x.m = <<>> THEN y
  ELSE IF y.m = <<>> THEN x
  ELSE SumFinite(x, y, IF x.e < y.e THEN x.e ELSE y.e)

\* x * y on doubles.
Times(x, y) ==
  IF x.nan \/ y.nan THEN NaN
  ELSE IF x.inf \/ y.inf
    THEN (IF (~x.inf /\ x.m = <<>>) \/ (~y.inf /\ y.m = <<>>)
            THEN NaN ELSE Infinity(x.neg # y.neg))
  ELSE RoundToDouble(x.neg # y.neg, BigMul(x.m, y.m), x.e + y.e, FALSE)

\* n - 1
MinusOne == Num(-1)

Minus1(n) == Plus(n, MinusOne)

\* DoubleToInteger: the fraction of a finite number is cut off (towards
\* zero); NaN and the infinities stay.
Truncate(x) ==
  IF x.nan \/ x.inf \/ x.e >= 0 THEN x
  ELSE Exact(x.neg, ShiftRight(x.m, -x.e), 0)

\* |x| <= c for a finite number x and an integer 0 <= c < 2^30.
AbsAtMost(x, c) ==
  IF x.e >= 0
    THEN BitLen(x.m) + x.e <= 30 /\ IntOf(ShiftLeft(x.m, x.e)) <= c
    ELSE BitLen(x.m) + x.e <= 30 /\ IntOf(ShiftRight(x.m, -x.e)) < c

\* The integer that a number x with |x| < 2^30 has after its fraction is
\* cut off:  static_cast<int>(x).
ToInteger(x) ==
  IF x.e >= 0 THEN (IF x.neg THEN -IntOf(ShiftLeft(x.m, x.e)) ELSE IntOf(ShiftLeft(x.m, x.e)))
  ELSE (IF x.neg THEN -IntOf(ShiftRight(x.m, -x.e)) ELSE IntOf(ShiftRight(x.m, -x.e)))

\* ------------------------------------------------------------- text values

Digits == <<"0", "1", "2", "3", "4", "5", "6", "7", "8", "9">>

IsDigit(ch) == \E i \in 1..10 : Digits[i] = ch

DigitVal(ch) == (CHOOSE i \in 1..10 : Digits[i] = ch) - 1

HexLower == <<"0", "1", "2", "3", "4", "5", "6", "7", "8", "9",
              "a", "b", "c", "d", "e", "f">>

HexUpper == <<"0", "1", "2", "3", "4", "5", "6", "7", "8", "9",
              "A", "B", "C", "D", "E", "F">>

\* The value of ch as a digit of a numeral, 99 when it is none.
HexVal(ch) ==
  IF \E i \in 1..16 : HexLower[i] = ch
    THEN (CHOOSE i \in 1..16 : HexLower[i] = ch) - 1
  ELSE IF \E i \in 1..16 : HexUpper[i] = ch
    THEN (CHOOSE i \in 1..16 : HexUpper[i] = ch) - 1
  ELSE 99

\* White space that Number() strips (StrWhiteSpaceChar): tab, line feed,
\* vertical tab, form feed, carriage return, space, no-break space, the
\* byte order mark and the space separators and line separators of Unicode.
\* A character that a string of this module cannot hold is written as its
\* escape, a backslash, u and its four hexadecimal digits.
WhiteSpace ==
  {" ", "\t", "\n", "\r", "\f", "", " ", "﻿", " ",
   "\\u000b", "\\u000B", "\\u00a0", "\\u00A0", "\\ufeff", "\\uFEFF", "\\u1680",
   "\\u2000", "\\u2001", "\\u2002", "\\u2003", "\\u2004", "\\u2005",
   "\\u2006", "\\u2007", "\\u2008", "\\u2009", "\\u200a", "\\u200A",
   "\\u2028", "\\u2029", "\\u202f", "\\u202F", "\\u205f", "\\u205F",
   "\\u3000"}

\* The positions of sep in s, and the k-th of them.
Separators(s, sep) == {i \in 1..Len(s) : s[i] = sep}

SeparatorAt(ps, k) == CHOOSE p \in ps : Cardinality({q \in ps : q < p}) = k - 1

\* String.prototype.split(sep) for a one-character separator: the pieces of
\* s between the occurrences of sep (always at least one piece).
SplitAt(s, ps, n) ==
  [k \in 1..(n + 1) |->
     SubSeq(s, IF k = 1 THEN 1 ELSE SeparatorAt(ps, k - 1) + 1,
               IF k = n + 1 THEN Len(s) ELSE SeparatorAt(ps, k) - 1)]

split(s, sep) == SplitAt(s, Separators(s, sep), Cardinality(Separators(s, sep)))

\* s without the white space at its beginning.
TrimStart(s) ==
  IF \A i \in 1..Len(s) : s[i] \in WhiteSpace THEN <<>>
  ELSE SubSeq(s, CHOOSE i \in 1..Len(s) :
                   s[i] \notin WhiteSpace /\ \A j \in 1..(i - 1) : s[j] \in WhiteSpace,
              Len(s))

\* s without the white space at its end.
TrimEnd(s) ==
  IF \A i \in 1..Len(s) : s[i] \in WhiteSpace THEN <<>>
  ELSE SubSeq(s, 1, CHOOSE i \in 1..Len(s) :
                      s[i] \notin WhiteSpace /\ \A j \in (i + 1)..Len(s) : s[j] \in WhiteSpace)

\* The first position from i on that holds no decimal digit.
DigitsEnd(s, i) ==
  CHOOSE j \in i..(Len(s) + 1) :
    (j = Len(s) + 1 \/ ~IsDigit(s[j])) /\ \A k \in i..(j - 1) : IsDigit(s[k])

\* The value of up to four decimal digits s[i..j-1].
RECURSIVE FewDigits(_, _, _)
FewDigits(s, i, j) ==
  IF i >= j THEN 0 ELSE FewDigits(s, i, j - 1) * 10 + DigitVal(s[j - 1])

\* The natural number that the decimal digits s[i..j-1] make: the value of
\* the higher half of the digits, in its place, and the value of the lower.
RECURSIVE Accumulate(_, _, _)
Accumulate(s, i, j) ==
  IF j - i <= 4 THEN BigOf(FewDigits(s, i, j))
  ELSE BigAdd(BigMul(Accumulate(s, i, (i + j) \div 2), BigPow10(j - ((i + j) \div 2))),
              Accumulate(s, (i + j) \div 2, j))

\* The first position from i on, before j, that holds no digit 0.
ZerosEnd(s, i, j) ==
  CHOOSE p \in i..j : (p = j \/ s[p] # "0") /\ \A k \in i..(p - 1) : s[k] = "0"

\* The value of up to nine decimal digits s[i..j-1].
RECURSIVE ExpDigits(_, _, _)
ExpDigits(s, i, j) ==
  IF i >= j THEN 0 ELSE ExpDigits(s, i, j - 1) * 10 + DigitVal(s[j - 1])

\* The value of the exponent digits s[i..j-1]; the values from cap on are
\* not told apart (the number is then 0 or infinite whatever they are).
ExpValue(s, i, j, cap) ==
  LET z == ZerosEnd(s, i, j)
  IN  IF j - z > 9 \/ ExpDigits(s, z, j) > cap THEN cap ELSE ExpDigits(s, z, j)

\* The fraction of a decimal literal whose integer digits end before
\* position i1: where its digits begin (f0) and end (f1); without a point
\* f0 = f1 = i1.
FractionOf(s, i1) ==
  IF i1 <= Len(s) /\ s[i1] = "."
    THEN [f0 |-> i1 + 1, f1 |-> DigitsEnd(s, i1 + 1)]
    ELSE [f0 |-> i1, f1 |-> i1]

\* The exponent part of a decimal literal whose mantissa ends before
\* position f1: e or E, an optional sign, and digits from x0 up to x1.
ExponentOf(s, f1) ==
  IF f1 <= Len(s) /\ s[f1] \in {"e", "E"}
    THEN IF f1 + 1 <= Len(s) /\ s[f1 + 1] \in {"+", "-"}
           THEN [has |-> TRUE, neg |-> s[f1 + 1] = "-", x0 |-> f1 + 2,
                 x1 |-> DigitsEnd(s, f1 + 2)]
           ELSE [has |-> TRUE, neg |-> FALSE, x0 |-> f1 + 1,
                 x1 |-> DigitsEnd(s, f1 + 1)]
    ELSE [has |-> FALSE, neg |-> FALSE, x0 |-> f1, x1 |-> f1]

\* The double nearest to a / t for a, t # 0.  The quotient is taken with 60
\* binary digits (the first may be 0): with i = 59 when a < t * 2^(i + 1),
\* else after t is moved up; a remainder makes the rounding sticky.
QuotientOf(st, e) == RoundToDouble(FALSE, st.q, e, st.a # <<>>)

DivideShifted(a, t, e) ==
  QuotientOf(DivideBlocks([a |-> a, cur |-> ShiftLeft(t, 59), q |-> <<>>], 6), e)

\* d is BitLen(a) - BitLen(t), so that a / t < 2^(d + 1).
DivideBits(a, t, d) ==
  IF d < 59 THEN DivideShifted(ShiftLeft(a, 59 - d), t, d - 59)
  ELSE DivideShifted(a, ShiftLeft(t, d - 59), d - 59)

Divide(a, t) == DivideBits(a, t, BitLen(a) - BitLen(t))

\* The double nearest to d * 10^k, for a natural number d: Infinity when it
\* is 2^1024 or more after rounding, 0 when it is 2^-1075 or less.
Decimal(d, k) ==
  IF d = <<>> THEN Zero(FALSE)
  ELSE IF k >= 0
    THEN (IF k > 350 THEN Infinity(FALSE)
          ELSE IF k = 0 THEN RoundToDouble(FALSE, d, 0, FALSE)
          ELSE RoundToDouble(FALSE, BigMul(d, BigPow10(k)), 0, FALSE))
  ELSE IF 3 * (-k) > BitLen(d) + 1080 THEN Zero(FALSE)
  ELSE Divide(d, BigPow10(-k))

\* The digits of the mantissa of a literal: its integer digits s[1..i1-1]
\* and then the digits of its fraction.
Mantissa(s, i1, fr) ==
  IF fr.f1 = fr.f0 THEN Accumulate(s, 1, i1)
  ELSE
  BigAdd(BigMul(Accumulate(s, 1, i1), BigPow10(fr.f1 - fr.f0)),
         Accumulate(s, fr.f0, fr.f1))

\* The value of the literal s with the integer digits s[1..i1-1], the
\* fraction fr and the exponent ex: NaN unless there is a digit in the
\* mantissa, a digit in an exponent that is there, and nothing after.
LiteralValue(s, i1, fr, ex) ==
  IF (i1 - 1) + (fr.f1 - fr.f0) = 0 \/ (ex.has /\ ex.x1 = ex.x0) \/ ex.x1 # Len(s) + 1
    THEN NaN
    ELSE LET x == IF ex.has THEN ExpValue(s, ex.x0, ex.x1, 4 * Len(s) + 400) ELSE 0
         IN  Decimal(Mantissa(s, i1, fr), (IF ex.neg THEN -x ELSE x) - (fr.f1 - fr.f0))

DecimalFrom(s, i1, fr) == LiteralValue(s, i1, fr, ExponentOf(s, fr.f1))

\* StrUnsignedDecimalLiteral without Infinity: digits, an optional point
\* and digits (a digit on one side at least), an optional exponent.
DecimalLiteral(s) ==
  LET i1 == DigitsEnd(s, 1) IN DecimalFrom(s, i1, FractionOf(s, i1))

\* The number of binary digits of a digit in the base 16, 8 or 2.
BitsOfBase(base) == IF base = 16 THEN 4 ELSE IF base = 8 THEN 3 ELSE 1

\* The natural number that the digits s[i..j-1] of a numeral in the given
\* base make: the value of the higher half of the digits, in its place, and
\* the value of the lower.
RECURSIVE RadixValue(_, _, _, _)
RadixValue(s, i, j, base) ==
  IF j - i = 1 THEN BigOf(HexVal(s[i]))
  ELSE BigAdd(ShiftLeft(RadixValue(s, i, (i + j) \div 2, base),
                        BitsOfBase(base) * (j - ((i + j) \div 2))),
              RadixValue(s, (i + j) \div 2, j, base))

\* NonDecimalIntegerLiteral: 0x, 0o or 0b and digits of that base.
RadixLiteral(s, base) ==
  IF Len(s) >= 3 /\ \A i \in 3..Len(s) : HexVal(s[i]) < base
    THEN RoundToDouble(FALSE, RadixValue(s, 3, Len(s) + 1, base), 0, FALSE)
    ELSE NaN

InfinityText == <<"I", "n", "f", "i", "n", "i", "t", "y">>

\* Infinity or a decimal literal.
UnsignedLiteral(s) ==
  IF s = InfinityText THEN Infinity(FALSE)
  ELSE IF s = <<>> THEN NaN
  ELSE DecimalLiteral(s)

WithSign(neg, n) == IF neg THEN Negate(n) ELSE n

\* StrDecimalLiteral: an optional sign, then Infinity or a decimal literal.
SignedLiteral(s) ==
  WithSign(s[1] = "-", UnsignedLiteral(IF s[1] \in {"+", "-"} THEN Tail(s) ELSE s))

\* The base that the second character of 0x, 0o, 0b announces.
Radix(ch) == IF ch \in {"x", "X"} THEN 16 ELSE IF ch \in {"o", "O"} THEN 8 ELSE 2

\* StrNumericLiteral of a text without white space around it; the empty
\* text is 0.
NumericLiteral(t) ==
  IF t = <<>> THEN Zero(FALSE)
  ELSE IF Len(t) >= 2 /\ t[1] = "0" /\ t[2] \in {"x", "X", "o", "O", "b", "B"}
    THEN RadixLiteral(t, Radix(t[2]))
  ELSE SignedLiteral(t)

\* Number(text), i.e. StringToNumber: white space around the numeral is
\* dropped, the empty text is 0, and a text that is no numeral is NaN.
Number(s) == NumericLiteral(TrimEnd(TrimStart(s)))

\* arr.map(Number)[i - 1]: a missing element is undefined, which the Date
\* constructor turns into NaN.
NumberAt(arr, i) == IF i <= Len(arr) THEN Number(arr[i]) ELSE NaN

\* An argument that the spread of arr.map(Number) does not pass: the Date
\* constructor takes 0 for it.
NumberOrZero(arr, i) == IF i <= Len(arr) THEN Number(arr[i]) ELSE Zero(FALSE)

\* ------------------------------------------------------------------- dates

\* A time value: Invalid Date (nan), or the instant as the day since
\* 01/01/1970 (UTC) and the millisecond of that day.
TimeValue(day, ms) == [nan |-> FALSE, day |-> day, ms |-> ms]

InvalidDate == [nan |-> TRUE, day |-> 0, ms |-> 0]

\* The time zones of the server's environment (TZ) that the model knows.
Zones == {"UTC", "America/New_York"}

\* Days from 01/01/1970 to the first day of month index mIdx (0 = January,
\* any integer, as MakeDay normalises it) of year y.
DaysToMonth(y, mIdx) ==
  LET ym  == y + ((mIdx - (mIdx % 12)) \div 12)
      mn  == (mIdx % 12) + 1
      yy  == IF mn <= 2 THEN ym - 1 ELSE ym
      era == (yy - (yy % 400)) \div 400
      yoe == yy % 400
      mp  == IF mn > 2 THEN mn - 3 ELSE mn + 9
      doy == (153 * mp + 2) \div 5
      doe == yoe * 365 + (yoe \div 4) - (yoe \div 100) + doy
  IN  era * 146097 + doe - 719468

\* The calendar year of a day since 01/01/1970.
YearFromDay(day) ==
  LET z   == day + 719468
      era == (z - (z % 146097)) \div 146097
      doe == z % 146097
      yoe == (doe - (doe \div 1460) + (doe \div 36524) - (doe \div 146096)) \div 365
      doy == doe - (365 * yoe + (yoe \div 4) - (yoe \div 100))
      mp  == (5 * doy + 2) \div 153
  IN  yoe + era * 400 + (IF mp >= 10 THEN 1 ELSE 0)

\* The first Sunday on or after the day n (01/01/1970 was a Thursday).
NextSunday(n) == n + ((7 - ((n + 4) % 7)) % 7)

\* Day d of month index mIdx of year y, or the first Sunday on or after it.
DayOfRule(y, mIdx, d, sunday) ==
  IF sunday THEN NextSunday(DaysToMonth(y, mIdx) + d - 1)
            ELSE DaysToMonth(y, mIdx) + d - 1

\* Daylight saving time of America/New_York in year y, as in the tz
\* database: month index and day of its beginning and whether the day is
\* the first Sunday from that day on, then the same of its end.  War time
\* ran from 09/02/1942 to 30/09/1945 (the years it covers wholly end on the
\* first day of the next); before 1918 there is none (beginning = end).
DstRule(y) ==
  IF y >= 2007 THEN <<2, 8, TRUE, 10, 1, TRUE>>
  ELSE IF y >= 1987 THEN <<3, 1, TRUE, 9, 25, TRUE>>
  ELSE IF y >= 1976 THEN <<3, 24, TRUE, 9, 25, TRUE>>
  ELSE IF y = 1975 THEN <<1, 23, FALSE, 9, 25, TRUE>>
  ELSE IF y = 1974 THEN <<0, 6, FALSE, 9, 25, TRUE>>
  ELSE IF y >= 1955 THEN <<3, 24, TRUE, 9, 25, TRUE>>
  ELSE IF y >= 1946 THEN <<3, 24, TRUE, 8, 24, TRUE>>
  ELSE IF y = 1945 THEN <<0, 1, FALSE, 8, 30, FALSE>>
  ELSE IF y >= 1943 THEN <<0, 1, FALSE, 12, 1, FALSE>>
  ELSE IF y = 1942 THEN <<1, 9, FALSE, 12, 1, FALSE>>
  ELSE IF y >= 1921 THEN <<3, 24, TRUE, 8, 24, TRUE>>
  ELSE IF y >= 1918 THEN <<2, 25, TRUE, 9, 25, TRUE>>
  ELSE <<0, 1, FALSE, 0, 1, FALSE>>

\* The days of year y on which the rule r makes saving time begin and end
\* (both at 02:00 local time).
DstDays(y, r) == <<DayOfRule(y, r[1], r[2], r[3]), DayOfRule(y, r[4], r[5], r[6])>>

\* x < y on (day, millisecond) pairs.
Before(d1, m1, d2, m2) == d1 < d2 \/ (d1 = d2 /\ m1 < m2)

\* The offset of New York for the local time (day, ms) of year y, whose
\* saving time begins and ends on the days dst.  A local time that a
\* transition skips or repeats is read with the offset in force before
\* the transition.  In 1943 to 1945 saving time runs from the year before,
\* in 1942 to 1944 into the next year.
OffsetInYear(y, dst, day, ms) ==
  IF /\ dst[1] # dst[2]
     /\ (y \in {1943, 1944, 1945} \/ ~Before(day, ms, dst[1], 10800000))
     /\ (y \in {1942, 1943, 1944} \/ Before(day, ms, dst[2], 7200000))
    THEN -14400000 ELSE -18000000

OffsetIn(y, day, ms) == OffsetInYear(y, DstDays(y, DstRule(y)), day, ms)

\* The offset from UTC, in milliseconds, with which the local time (day,
\* ms) of zone tz is read.  New York keeps local mean time (-4:56:02) until
\* 18/11/1883 12:03:58.
LocalOffset(tz, day, ms) ==
  IF tz = "UTC" THEN 0
  ELSE IF Before(day, ms, -31455, 43438000) THEN -17762000
  ELSE OffsetIn(YearFromDay(day), day, ms)

\* t + k milliseconds for |k| below one day.
AddMs(day, ms, k) ==
  IF ms + k < 0 THEN TimeValue(day - 1, ms + k + 86400000)
  ELSE IF ms + k >= 86400000 THEN TimeValue(day + 1, ms + k - 86400000)
  ELSE TimeValue(day, ms + k)

\* TimeClip: a time value is within 100,000,000 days of 01/01/1970.
TimeClip(t) ==
  IF t.day < -100000000 \/ t.day > 100000000 \/ (t.day = 100000000 /\ t.ms > 0)
    THEN InvalidDate ELSE t

\* ToUTC: the instant of the local time (day, lms) of zone tz.
LocalTime(tz, day, lms) == TimeClip(AddMs(day, lms, -LocalOffset(tz, day, lms)))

\* Division of integers as the engine's C++ has it: the quotient is cut
\* towards zero and the remainder has the sign of a (b > 0).
CDiv(a, b) == IF a >= 0 THEN a \div b ELSE -((-a) \div b)

CRem(a, b) == a - b * CDiv(a, b)

\* The days before each month of a year without and with a leap day.
DayFromMonth == <<0, 31, 59, 90, 120, 151, 181, 212, 243, 273, 304, 334>>

DayFromMonthLeap == <<0, 31, 60, 91, 121, 152, 182, 213, 244, 274, 305, 335>>

\* The days from 01/01/1970 to 01/01/y as MakeDay counts them: years are
\* counted from the year -399999, and for the years before it the
\* divisions cut towards zero.
DayFromYear(y) ==
  365 * (y + 399999) + CDiv(y + 399999, 4) - CDiv(y + 399999, 100)
    + CDiv(y + 399999, 400)
    - (365 * (1970 + 399999) + ((1970 + 399999) \div 4)
         - ((1970 + 399999) \div 100) + ((1970 + 399999) \div 400))

InLeapYear(y) == ~(CRem(y, 4) # 0 \/ (CRem(y, 100) = 0 /\ CRem(y, 400) # 0))

\* The days from 01/01/1970 to the first day of month m (0 to 11) of year y.
DayFromYearMonth(y, m) ==
  DayFromYear(y) + (IF InLeapYear(y) THEN DayFromMonthLeap[m + 1] ELSE DayFromMonth[m + 1])

\* The month index m0 carried over into the year y0.
DayOfMonthIndex(y0, m0) ==
  IF CRem(m0, 12) < 0
    THEN DayFromYearMonth(y0 + CDiv(m0, 12) - 1, CRem(m0, 12) + 12)
    ELSE DayFromYearMonth(y0 + CDiv(m0, 12), CRem(m0, 12))

\* MakeDay: NaN unless the year is within 1,000,000 and the month within
\* 10,000,000 of 0 and the day is finite; else the day number of the day
\* before the month plus the day of the month (as doubles).
MakeDay(year, month, date) ==
  IF /\ IsFinite(year) /\ AbsAtMost(year, 1000000)
     /\ IsFinite(month) /\ AbsAtMost(month, 10000000)
     /\ IsFinite(date)
    THEN Plus(Num(DayOfMonthIndex(ToInteger(year), ToInteger(month)) - 1),
              Truncate(date))
    ELSE NaN

msPerSecond == Num(1000)

msPerMinute == Num(60000)

msPerHour == Num(3600000)

msPerDay == Num(86400000)

\* MakeTime: h * msPerHour + m * msPerMinute + s * msPerSecond + milli on
\* doubles, from left to right.
MakeTime(h, mi, s, ms) ==
  IF IsFinite(h) /\ IsFinite(mi) /\ IsFinite(s) /\ IsFinite(ms)
    THEN Plus(Plus(Plus(Times(Truncate(h), msPerHour),
                        Times(Truncate(mi), msPerMinute)),
                   Times(Truncate(s), msPerSecond)),
              Truncate(ms))
    ELSE NaN

\* MakeDate: day * msPerDay + time on doubles.
MakeDate(day, time) ==
  IF IsFinite(day) /\ IsFinite(time) THEN Plus(time, Times(day, msPerDay))
  ELSE NaN

\* The largest local time that is converted to UTC: 100,000,000 days and
\* a month of 30 days, in milliseconds.
MaxTimeBeforeUTC == BigMul(BigOf(100000030), BigOf(86400000))

\* The day and the millisecond of the day of n milliseconds before (neg)
\* or after 01/01/1970: n by 86,400,000 = 1024 * 625 * 135, rounded down.
DayAndMs(neg, day, ms) ==
  IF ~neg THEN <<day, ms>>
  ELSE IF ms = 0 THEN <<-day, 0>>
  ELSE <<-day - 1, 86400000 - ms>>

SplitBy135(neg, n2, r0, r1) ==
  DayAndMs(neg, IntOf(BigDivSmall(n2, 135)),
           1024 * (625 * BigModSmall(n2, 135) + r1) + r0)

SplitBy625(neg, n1, r0) ==
  SplitBy135(neg, BigDivSmall(n1, 625), r0, BigModSmall(n1, 625))

SplitDays(neg, n) == SplitBy625(neg, ShiftRight(n, 10), Limb(n, 1) % 1024)

\* The Date of the local time value n (a natural number of milliseconds,
\* before 01/01/1970 if neg) of zone tz: Invalid Date out of range.
DateOfSplit(tz, dm) == LocalTime(tz, dm[1], dm[2])

DateOfLocal(tz, neg, n) ==
  IF BigLess(MaxTimeBeforeUTC, n) THEN InvalidDate
  ELSE DateOfSplit(tz, SplitDays(neg, n))

\* The Date of the local time value tv, a double.
DateOfValue(tz, tv) ==
  IF ~IsFinite(tv) \/ BitLen(tv.m) + tv.e > 60 THEN InvalidDate
  ELSE DateOfLocal(tz, tv.neg, ShiftLeft(tv.m, tv.e))

Year1900 == Num(1900)

\* Years 0 to 99 are 1900 to 1999.
FullYear(y, yi) ==
  IF IsFinite(yi) /\ AbsAtMost(yi, 99) /\ (~yi.neg \/ yi.m = <<>>)
    THEN Plus(Year1900, yi) ELSE y

\* new Date(y, mIdx, d, h, mi, s, ms) in the time zone tz: Invalid Date when
\* a component is NaN or infinite or the date is out of range; the
\* fractions of the components are cut off; components out of their range
\* carry over.
NewDate(tz, y, mIdx, d, h, mi, s, ms) ==
  DateOfValue(tz, MakeDate(MakeDay(FullYear(y, Truncate(y)), mIdx, d),
                           MakeTime(h, mi, s, ms)))

\* a < b on Dates (their time values): false when one is Invalid Date.
DateLt(a, b) == ~a.nan /\ ~b.nan /\ Before(a.day, a.ms, b.day, b.ms)

\* a >= b on Dates.
DateGeq(a, b) == ~a.nan /\ ~b.nan /\ ~Before(a.day, a.ms, b.day, b.ms)

\* const [d,m,y] = c.churrascoDate.split('/').map(Number);
\* const [h,mi]  = c.hora.split(':').map(Number);
\* const dt = new Date(y, m-1, d, h, mi);
eventDate(tz, c) ==
  LET dmy == split(c.churrascoDate, "/")
      hm  == split(c.hora, ":")
  IN  NewDate(tz, NumberAt(dmy, 3), Minus1(NumberAt(dmy, 2)), NumberAt(dmy, 1),
              NumberAt(hm, 1), NumberAt(hm, 2), Zero(FALSE), Zero(FALSE))

\* new Date(y, m - 1, d, ...churrasco.hora.split(":").map(Number)) of the
\* in-memory variant: every piece of hora is an argument (hours, minutes,
\* seconds, milliseconds; the constructor ignores a fifth), and a piece
\* that hora does not have is an argument that is not passed.
eventDateSpread(tz, c) ==
  LET dmy == split(c.churrascoDate, "/")
      hm  == split(c.hora, ":")
  IN  NewDate(tz, NumberAt(dmy, 3), Minus1(NumberAt(dmy, 2)), NumberAt(dmy, 1),
              NumberOrZero(hm, 1), NumberOrZero(hm, 2),
              NumberOrZero(hm, 3), NumberOrZero(hm, 4))

\* ------------------------------------------------------------------- inputs

\* A JSON array, and a JSON value that is not an array (Array.isArray); a
\* field the body does not have is not an array either.
Arr(elems) == [isArray |-> TRUE, elems |-> elems]

NotArr == [isArray |-> FALSE, elems |-> <<>>]

\* The variants of the server in the repository.
Variants == {"part_001", "part_000", "mongo", "memory"}

\* The variants that keep the churrascos in MongoDB without authentication.
NoAuthVariants == {"part_000", "mongo"}

Usernames == {"alice", "bob"}

\* Values of the X-User header; "" is the absent header.
Headers == {"", "alice"}

Date2025 == <<"2", "5", "/", "1", "2", "/", "2", "0", "2", "5">>

DateNewYear == <<"0", "1", "/", "0", "1", "/", "2", "0", "2", "6">>

DateIso == <<"2", "0", "2", "5", "-", "1", "2", "-", "2", "5">>

Hora20 == <<"2", "0", ":", "0", "0">>

Hora00 == <<"0", "0", ":", "0", "0">>

\* A text is the sequence of its characters.  A JSON number is written as
\* the word "number" followed by the characters of its decimal text:
\* 20251225, 20 and 0.
DateNumber == <<"number", "2", "0", "2", "5", "1", "2", "2", "5">>

HoraNumber == <<"number", "2", "0">>

NumberZero == <<"number", "0">>

\* !v for a text or a number v of a body: the empty text (an absent field
\* is "") and the number 0 are falsy.
Not(v) == v = <<>> \/ v = NumberZero

\* typeof v === 'string'
IsText(v) == v = <<>> \/ v[1] # "number"

\* The schema type String of Mongoose: a number is stored as its decimal
\* text.
castString(v) == IF IsText(v) THEN v ELSE Tail(v)

\* Bodies of POST /churrascos.  part_001 reads invitedUsers and takes the
\* creator from the request; the other variants read userName (and, but for
\* part_000, token) and do not look at invitedUsers.  An absent text field
\* is "".  The third body names no creator, the fourth has no token and an
\* invitedUsers that is no array, the next two have no local and a
\* fornecidos that is not an array, and the churrascoDate of the last is
\* the number 0.
ParkBody ==
  [churrascoDate |-> Date2025, hora |-> Hora20, local |-> "Park",
   fornecidos |-> Arr(<<"charcoal">>), invitedUsers |-> Arr(<<"alice", "bob">>),
   userName |-> "alice", token |-> "ta"]

CreateBodies ==
  { ParkBody,
    [churrascoDate |-> Date2025, hora |-> Hora20, local |-> "Garden",
     fornecidos |-> Arr(<<>>), invitedUsers |-> Arr(<<>>),
     userName |-> "bob", token |-> "tb"],
    [churrascoDate |-> DateNewYear, hora |-> Hora00, local |-> "Beach",
     fornecidos |-> Arr(<<>>), invitedUsers |-> Arr(<<"bob">>),
     userName |-> "", token |-> ""],
    [churrascoDate |-> DateIso, hora |-> Hora20, local |-> "Park",
     fornecidos |-> Arr(<<>>), invitedUsers |-> NotArr,
     userName |-> "alice", token |-> ""],
    [churrascoDate |-> Date2025, hora |-> Hora20, local |-> "",
     fornecidos |-> Arr(<<>>), invitedUsers |-> Arr(<<"bob">>),
     userName |-> "bob", token |-> "tb"],
    [churrascoDate |-> Date2025, hora |-> Hora20, local |-> "Park",
     fornecidos |-> NotArr, invitedUsers |-> Arr(<<"bob">>),
     userName |-> "bob", token |-> "tb"],
    [ParkBody EXCEPT !.churrascoDate = NumberZero] }

\* Bodies of POST /churrascos/:id/confirm-presenca; the last two are invalid.
ConfirmBodies ==
  { [name |-> "alice", selectedItems |-> Arr(<<"beer">>)],
    [name |-> "bob", selectedItems |-> Arr(<<"ice", "beer">>)],
    [name |-> "", selectedItems |-> Arr(<<"beer">>)],
    [name |-> "bob", selectedItems |-> NotArr] }

\* Bodies of POST /churrascos/:id/decline-presenca; the one without a name
\* is invalid.
DeclineBodies == { [name |-> n] : n \in {""} \cup Usernames }

\* Bodies of POST /users/register; the last two are invalid, and two ask
\* for the same username.
RegisterBodies ==
  { [username |-> "alice", displayName |-> "Alice"],
    [username |-> "alice", displayName |-> "Alicia"],
    [username |-> "bob", displayName |-> "Bob"],
    [username |-> "", displayName |-> "Nobody"],
    [username |-> "bob", displayName |-> ""] }

\* Bodies of POST /users/login; the last two are invalid.
LoginBodies ==
  { [username |-> "alice", fcmToken |-> "tb"],
    [username |-> "bob", fcmToken |-> "tb"],
    [username |-> "", fcmToken |-> "tb"],
    [username |-> "bob", fcmToken |-> ""] }

\* Values of the status query parameter of GET /churrascos ("" is absent).
Statuses == {"active", "past", ""}

\* Readings of the clock by now = new Date(): 25/12/2025 20:00 UTC and
\* 01/01/2026 00:00 UTC.
NowValues == {TimeValue(20447, 72000000), TimeValue(20454, 0)}

\* Concurrent requests the server is handling.
Slots == {1, 2}

\* ------------------------------------------------------------------- state

VARIABLES
  variant,     \* the variant of the server that runs
  TZ,          \* the time zone of the server's environment
  User,        \* the User collection: its documents in insertion order
  Churrasco,   \* the Churrasco collection (in the in-memory variant the Map
               \* churrascos): its documents in insertion order
  nextId,      \* the next fresh _id (uuid in the in-memory variant)
  req,         \* per slot, the request that is waiting for an await to settle
  res,         \* the request answered last, with its response
  sent,        \* the messages handed to the transport, in order
  issued,      \* number of requests issued so far
  usernameIndex,
               \* the unique index on User.username that the schema asks
               \* for: "building" until MongoDB has built it, then "built",
               \* or "failed" when the build met a duplicate ("none" in the
               \* variants without users)
  hist         \* history: the writes the server acknowledged, in order,
               \* each with the request's input (kept for the properties)

vars == <<variant, TZ, usernameIndex, User, Churrasco, nextId, req, res, sent, issued, hist>>

NoBody == [none |-> TRUE]

\* A slot that handles no request; also the shape of a request: its route
\* (op), X-User header (hdr), req.user (user), :id (id, -1 when the route
\* has none), :username (target), ?status (query), body, the reading of the
\* clock it took (now), the logical time of its arrival (at), the document
\* it loaded (doc), the tokens it sends to (tokens), its response (status,
\* message, newId, churrascos), and for the properties whether it wrote
\* (wrote) and the _id it created (made).
Idle ==
  [pc |-> "idle", op |-> "", hdr |-> "", user |-> "", id |-> -1, target |-> "",
   query |-> "", body |-> NoBody, now |-> TimeValue(0, 0), at |-> 0,
   doc |-> NoBody, tokens |-> <<>>,
   status |-> 0, message |-> "", newId |-> 0, churrascos |-> <<>>,
   wrote |-> FALSE, made |-> 0]

\* The :id of a request: 0 stands for a text that is not the 24 hexadecimal
\* digits of an ObjectId, the others for well-formed ids, those created so
\* far and one never created.
KnownIds == 0..nextId

\* Casting the :id to an ObjectId succeeds.
IsObjectId(id) == id > 0

\* ------------------------------------------------- documents and responses

\* The identifier of a stored document, and of an element of a response.
IdOf(c) == IF "_id" \in DOMAIN c THEN c._id ELSE c.id

\* Helper para normalizar objetos para o front (part_001).
mapChurrasco(c) ==
  [id |-> c._id, churrascoDate |-> c.churrascoDate, hora |-> c.hora,
   local |-> c.local, createdBy |-> c.createdBy, invitedUsers |-> c.invitedUsers,
   fornecidosAgregados |-> c.fornecidos, guestsConfirmed |-> c.guestsConfirmed,
   guestsDeclined |-> c.guestsDeclined]

\* The helper of part_000, whose documents have no invitedUsers.
mapChurrascoPart000(c) ==
  [id |-> c._id, churrascoDate |-> c.churrascoDate, hora |-> c.hora,
   local |-> c.local, createdBy |-> c.createdBy,
   fornecidosAgregados |-> c.fornecidos, guestsConfirmed |-> c.guestsConfirmed,
   guestsDeclined |-> c.guestsDeclined]

\* GET /churrascos/:id of the MongoDB variant of server.js: the fields of
\* the response other than success.
detailsMongo(c) ==
  [churrascoDate |-> c.churrascoDate, hora |-> c.hora, local |-> c.local,
   createdBy |-> c.createdBy,
   fornecidosAgregados |-> c.fornecidos, guestsConfirmed |-> c.guestsConfirmed,
   guestsDeclined |-> c.guestsDeclined]

\* GET /churrascos/:id of the in-memory variant: "dados resumidos para
\* envio", the fields of the response other than success.
detailsInMemory(c) ==
  [churrascoDate |-> c.churrascoDate, hora |-> c.hora, local |-> c.local,
   fornecidosAgregados |-> c.fornecidos, guestsConfirmed |-> c.guestsConfirmed,
   guestsDeclined |-> c.guestsDeclined]

\* Model.findById(id) / User.findOne({ username }): the position of the
\* document in the collection, 0 when there is none.
indexById(coll, id) ==
  IF \E i \in 1..Len(coll) : coll[i]._id = id
    THEN CHOOSE i \in 1..Len(coll) : coll[i]._id = id
    ELSE 0

indexByUsername(coll, username) ==
  IF \E i \in 1..Len(coll) : coll[i].username = username
    THEN CHOOSE i \in 1..Len(coll) :
           /\ coll[i].username = username
           /\ \A j \in 1..(i - 1) : coll[j].username # username
    ELSE 0

\* churrascos.get(id) of the in-memory variant: the position of the entry
\* with that key, 0 when there is none (undefined).
get(coll, id) ==
  IF \E i \in 1..Len(coll) : coll[i].id = id
    THEN CHOOSE i \in 1..Len(coll) : coll[i].id = id
    ELSE 0

\* Array.prototype.filter / map / flatMap / includes / some on sequences.
filter(arr, Test(_)) == SelectSeq(arr, Test)

map(arr, F(_)) == [i \in 1..Len(arr) |-> F(arr[i])]

RECURSIVE flat(_)
flat(arrs) == IF arrs = <<>> THEN <<>> ELSE Head(arrs) \o flat(Tail(arrs))

flatMap(arr, F(_)) == flat(map(arr, F))

includes(arr, x) == \E i \in 1..Len(arr) : arr[i] = x

\* return status === 'active' ? dt >= now : dt < now;
isListedAt(dt, status, t) ==
  IF status = "active" THEN DateGeq(dt, t) ELSE DateLt(dt, t)


\* The test of the filter of GET /churrascos (the three MongoDB variants):
\* dt = new Date(y, m-1, d, h, mi) against now.
isListed(c, status, t) == isListedAt(eventDate(TZ, c), status, t)

\* (status === "active" && !isPast) || (status === "past" && isPast)
isPushed(status, isPast) ==
  (status = "active" /\ ~isPast) \/ (status = "past" /\ isPast)

\* The test of GET /churrascos of the in-memory variant: isPast =
\* eventDate < now.
isListedInMemory(c, status, t) ==
  isPushed(status, DateLt(eventDateSpread(TZ, c), t))

\* filtered.map(mapChurrasco)
mapped(filtered) == [i \in 1..Len(filtered) |-> mapChurrasco(filtered[i])]

\* filtered.map(mapChurrasco) of part_000.
mappedPart000(filtered) ==
  [i \in 1..Len(filtered) |-> mapChurrascoPart000(filtered[i])]

\* GET /churrascos of part_001: all.filter(...), then map(mapChurrasco).
listChurrascos(coll, status, t) ==
  mapped(SelectSeq(coll, LAMBDA c : isListed(c, status, t)))

\* GET /churrascos of part_000: the same with its own helper.
listChurrascosPart000(coll, status, t) ==
  mappedPart000(SelectSeq(coll, LAMBDA c : isListed(c, status, t)))

\* GET /churrascos of the MongoDB variant of server.js: the filtered
\* documents as they are stored.
listChurrascosMongo(coll, status, t) ==
  SelectSeq(coll, LAMBDA c : isListed(c, status, t))

\* GET /churrascos of the in-memory variant: the entries of the Map that
\* pass its test, as they are stored.
listChurrascosInMemory(coll, status, t) ==
  SelectSeq(coll, LAMBDA c : isListedInMemory(c, status, t))

\* churrasco.churrascoDate.split("/") and churrasco.hora.split(":") in the
\* loop of the in-memory variant: a value that is no text has no split,
\* and the call throws a TypeError.
splitThrows(coll) ==
  \E i \in 1..Len(coll) : ~IsText(coll[i].churrascoDate) \/ ~IsText(coll[i].hora)

\* (Variant for C7: the declined guests are not looked at.)
isPendingIgnoringDeclined(c, u) ==
  ~(\E i \in 1..Len(c.guestsConfirmed) : c.guestsConfirmed[i].name = u)

\* !c.guestsConfirmed.some(g => g.name === u) && !c.guestsDeclined.includes(u)
isPending(c, u) ==
  /\ ~(\E i \in 1..Len(c.guestsConfirmed) : c.guestsConfirmed[i].name = u)
  /\ ~includes(c.guestsDeclined, u)

\* GET /users/:username/invites: Churrasco.find({ invitedUsers: u }), then
\* the pending ones, mapped.
pendingInvites(coll, u) ==
  LET Invited(c) == includes(c.invitedUsers, u)
      Pending(c) == isPending(c, u)
  IN  map(filter(filter(coll, Invited), Pending), mapChurrasco)

\* ------------------------------------------------------- requests, replies

\* A request that has just arrived.
NewReq(op, hdr) == [Idle EXCEPT !.pc = "new", !.op = op, !.hdr = hdr]

\* return res.status(status).json({ success, message })
Respond(r, status, message) ==
  [r EXCEPT !.pc = "done", !.status = status, !.message = message]

\* The catch block of a handler: 500 with the message of the error.
Caught(r) == Respond(r, 500, "e.message")

\* A client may issue a request while fewer than MaxReq were issued.
CanIssue == issued < MaxReq

\* A request that has to wait for a database or transport operation waits
\* in the first free slot.
FreeSlot(s) ==
  /\ req[s].pc = "idle"
  /\ \A t \in Slots : t < s => req[t].pc # "idle"

\* The arrival of a request whose handling up to its next await leaves it
\* as a: answered, or waiting in slot s for the operation a.pc.
Arrives(s, a) ==
  /\ CanIssue
  /\ FreeSlot(s)
  /\ IF a.pc = "done" THEN res' = a /\ req' = req
                      ELSE req' = [req EXCEPT ![s] = a] /\ res' = res
  /\ issued' = issued + 1

\* The arrival of a request that is answered without a further await, with
\* the response a.
Answers(a) ==
  /\ CanIssue
  /\ res' = a
  /\ req' = req
  /\ issued' = issued + 1

\* The request in slot s goes on after the operation it awaited settled and
\* is left as a: answered, or waiting for the operation a.pc.
Continues(s, a) ==
  IF a.pc = "done" THEN res' = a /\ req' = [req EXCEPT ![s] = Idle]
                   ELSE req' = [req EXCEPT ![s] = a] /\ res' = res

\* The 401 of authMiddleware, which has read nothing of the request but
\* its X-User header.
Unauthorized(r, message) == Respond(NewReq(r.op, r.hdr), 401, message)

\* Middleware de autenticacao (via header X-User) up to its await of
\* User.findOne: 401 when the header is absent, else the request waits for
\* the lookup.
authMiddleware(r) ==
  IF r.hdr = "" THEN Unauthorized(r, "Nao autorizado")
                ELSE [r EXCEPT !.pc = "User.findOne"]

\* (Variant for C9: the header is taken at its word, whatever the lookup
\* found.)
authMiddlewareHeaderOnly(r, handled) == handled

\* authMiddleware once its User.findOne has resolved: 401 when there is no
\* user of that name, else req.user is set and next() runs the handler of
\* the route up to its first await, which leaves the request as handled.
authMiddlewareNext(r, handled) ==
  IF indexByUsername(User, r.hdr) = 0 THEN Unauthorized(r, "Usuario invalido")
                                      ELSE handled

\* The values pushed to the arrays of a loaded document: none yet.
NoDelta == [guestsConfirmed |-> <<>>, fornecidos |-> <<>>, guestsDeclined |-> <<>>]

\* (Variant for C3: a guest who is already confirmed is not added again.)
pushedUnique(d, delta) ==
  [d EXCEPT !.guestsConfirmed =
              IF \E i \in 1..Len(@), j \in 1..Len(delta.guestsConfirmed) :
                   @[i].name = delta.guestsConfirmed[j].name
                THEN @ ELSE @ \o delta.guestsConfirmed,
            !.fornecidos      = @ \o delta.fornecidos,
            !.guestsDeclined  = @ \o delta.guestsDeclined]

\* (Variant for C20: a guest who declines is taken off the confirmed guests.)
pushedExclusive(d, delta) ==
  [d EXCEPT !.guestsConfirmed =
              SelectSeq(@, LAMBDA g : ~includes(delta.guestsDeclined, g.name))
                \o delta.guestsConfirmed,
            !.fornecidos      = @ \o delta.fornecidos,
            !.guestsDeclined  = @ \o delta.guestsDeclined]

\* The pushes applied to the document d: Array.prototype.push appends (in
\* the in-memory variant d is the stored object; in the others MongoDB
\* appends the pushed values to the stored arrays).
pushed(d, delta) ==
  [d EXCEPT !.guestsConfirmed = @ \o delta.guestsConfirmed,
            !.fornecidos      = @ \o delta.fornecidos,
            !.guestsDeclined  = @ \o delta.guestsDeclined]

\* (Variant for C1: save writes the whole loaded document back.)
saveWholeDocument(coll, c, delta) ==
  [i \in 1..Len(coll) |->
     IF coll[i]._id = c._id THEN pushed(c, delta) ELSE coll[i]]

\* (Variant for C18: a guest who answers is taken off the invited users.)
saveAndUninvite(coll, c, delta) ==
  [i \in 1..Len(coll) |->
     IF coll[i]._id = c._id
       THEN [pushed(coll[i], delta) EXCEPT !.invitedUsers =
               SelectSeq(@, LAMBDA u :
                 /\ ~includes(delta.guestsDeclined, u)
                 /\ \A j \in 1..Len(delta.guestsConfirmed) :
                      delta.guestsConfirmed[j].name # u)]
       ELSE coll[i]]

\* (Variant for C19: the update is sent without the _id of the document.)
saveAll(coll, c, delta) ==
  [i \in 1..Len(coll) |-> pushed(coll[i], delta)]

\* Model.prototype.save() of a loaded document c whose arrays were only
\* pushed to: Mongoose sends the pushed values as $push operators on the
\* document with the _id of c.
save(coll, c, delta) ==
  [i \in 1..Len(coll) |->
     IF coll[i]._id = c._id THEN pushed(coll[i], delta) ELSE coll[i]]

\* (Variant for C2: the items are pushed as one element, without the
\* spread.)
confirmDeltaNoSpread(body) ==
  [NoDelta EXCEPT
     !.guestsConfirmed = <<[name |-> body.name, items |-> body.selectedItems.elems]>>,
     !.fornecidos = IF body.selectedItems.elems = <<>> THEN <<>>
                    ELSE <<Head(body.selectedItems.elems)>>]

\* c.guestsConfirmed.push({ name, items: selectedItems });
\* c.fornecidos.push(...selectedItems);
confirmDelta(body) ==
  [NoDelta EXCEPT
     !.guestsConfirmed = <<[name |-> body.name, items |-> body.selectedItems.elems]>>,
     !.fornecidos = body.selectedItems.elems]

\* c.guestsDeclined.push(name);
declineDelta(body) == [NoDelta EXCEPT !.guestsDeclined = <<body.name>>]

\* The pushes of the confirm or decline request r.
deltaOf(r) == IF r.op = "confirm" THEN confirmDelta(r.body) ELSE declineDelta(r.body)

\* (Variant for C24: a creator named in the body is taken.)
newChurrascoFromBody(id, body, createdBy, t) ==
  [_id |-> id, churrascoDate |-> castString(body.churrascoDate),
   hora |-> castString(body.hora),
   local |-> body.local, fornecidos |-> body.fornecidos.elems,
   guestsConfirmed |-> <<>>, guestsDeclined |-> <<>>,
   invitedUsers |-> body.invitedUsers.elems,
   createdBy |-> IF body.userName # "" THEN body.userName ELSE createdBy,
   createdAt |-> t]

\* The document Churrasco.create() stores in part_001 (createdAt is
\* Date.now, here the logical time t).
newChurrasco(id, body, createdBy, t) ==
  [_id |-> id, churrascoDate |-> castString(body.churrascoDate),
   hora |-> castString(body.hora),
   local |-> body.local, fornecidos |-> body.fornecidos.elems,
   guestsConfirmed |-> <<>>, guestsDeclined |-> <<>>,
   invitedUsers |-> body.invitedUsers.elems, createdBy |-> createdBy,
   createdAt |-> t]

\* The document Churrasco.create() stores in part_000.
newChurrascoPart000(id, body, t) ==
  [_id |-> id, churrascoDate |-> castString(body.churrascoDate),
   hora |-> castString(body.hora),
   local |-> body.local, fornecidos |-> body.fornecidos.elems,
   guestsConfirmed |-> <<>>, guestsDeclined |-> <<>>,
   createdBy |-> body.userName, createdAt |-> t]

\* The document Churrasco.create() stores in the MongoDB variant of
\* server.js.
newChurrascoMongo(id, body, t) ==
  [_id |-> id, churrascoDate |-> castString(body.churrascoDate),
   hora |-> castString(body.hora),
   local |-> body.local, fornecidos |-> body.fornecidos.elems,
   guestsConfirmed |-> <<>>, guestsDeclined |-> <<>>,
   createdBy |-> body.userName, createdByToken |-> body.token, createdAt |-> t]

\* The object churrascos.set(id, {...}) stores in the in-memory variant.
newChurrascoInMemory(id, body, t) ==
  [id |-> id, churrascoDate |-> body.churrascoDate, hora |-> body.hora,
   local |-> body.local, fornecidos |-> body.fornecidos.elems,
   guestsConfirmed |-> <<>>, guestsDeclined |-> <<>>,
   createdBy |-> body.userName, createdByToken |-> body.token, createdAt |-> t]

\* Churrasco.findByIdAndDelete: the collection without its i-th document.
removeAt(coll, i) == SubSeq(coll, 1, i - 1) \o SubSeq(coll, i + 1, Len(coll))

\* --------------------------------------------------- handlers of part_001
\* An action is the arrival of a request with the synchronous code up to
\* its first await, or the settling of one operation on a collection or on
\* the transport with the synchronous code that follows it up to the next
\* await.  Between two actions of a request the server handles other
\* requests: a request that awaits an operation waits for it in a slot.
\* The actions that settle an operation on the Churrasco collection serve
\* part_000 and the MongoDB variant of server.js too, which await the same
\* operations.

\* The document User.create({ username, displayName }) stores.
newUser(body) ==
  [username |-> body.username, displayName |-> body.displayName, fcmTokens |-> <<>>]

\* (Variant for C4: the displayName is checked after the user is stored.)
PostUsersRegisterCreateFirst(s, b) ==
  /\ variant = "part_001"
  /\ LET r == [NewReq("register", "") EXCEPT !.body = b] IN
       IF b.username # "" /\ b.displayName = ""
         THEN /\ User' = Append(User, newUser(b))
              /\ Arrives(s, [Respond(r, 400, "Dados incompletos") EXCEPT !.wrote = TRUE])
         ELSE /\ User' = User
              /\ Arrives(s, IF b.username = ""
                              THEN Respond(r, 400, "Dados incompletos")
                              ELSE [r EXCEPT !.pc = "User.create"])
  /\ UNCHANGED <<variant, TZ, usernameIndex, Churrasco, nextId, sent, hist>>

\* POST /users/register up to its await of User.create(): the validation
\* of the body and the call of User.create.
PostUsersRegister(s, b) ==
  /\ variant = "part_001"
  /\ LET r == [NewReq("register", "") EXCEPT !.body = b] IN
       /\ User' = User
       /\ Arrives(s, IF b.username = "" \/ b.displayName = ""
                       THEN Respond(r, 400, "Dados incompletos")
                       ELSE [r EXCEPT !.pc = "User.create"])
  /\ UNCHANGED <<variant, TZ, usernameIndex, Churrasco, nextId, sent, hist>>

\* await User.create(): MongoDB inserts the document, unless the unique
\* index on username is built and holds the username already; the insert
\* then fails with E11000 and the catch block answers 400 'Username ja
\* existe'.  While the index is not built (or after its build failed)
\* nothing refuses a username that is stored already.
UserCreate(s) ==
  /\ req[s].pc = "User.create"
  /\ IF usernameIndex = "built" /\ indexByUsername(User, req[s].body.username) # 0
       THEN /\ User' = User
            /\ Continues(s, Respond(req[s], 400, "Username ja existe"))
       ELSE /\ User' = Append(User, newUser(req[s].body))
            /\ Continues(s, [Respond(req[s], 200, "") EXCEPT !.wrote = TRUE])
  /\ UNCHANGED <<variant, TZ, usernameIndex, Churrasco, nextId, sent, issued, hist>>

\* username: { type: String, unique: true } asks MongoDB for a unique
\* index, which mongoose.model starts to build in the background once the
\* connection is open; no handler waits for it.  The build succeeds when
\* no two stored users have the same username and fails otherwise (the
\* error goes to the model's 'index' event, which nothing listens to).
IndexBuilds ==
  /\ usernameIndex = "building"
  /\ usernameIndex' =
       IF \A i, j \in 1..Len(User) : User[i].username = User[j].username => i = j
         THEN "built" ELSE "failed"
  /\ UNCHANGED <<variant, TZ, User, Churrasco, nextId, req, res, sent, issued, hist>>

\* POST /users/login up to its await of User.findOne(): the validation of
\* the body and the call of User.findOne.
PostUsersLogin(s, b) ==
  /\ variant = "part_001"
  /\ LET r == [NewReq("login", "") EXCEPT !.body = b] IN
       Arrives(s, IF b.username = "" \/ b.fcmToken = ""
                    THEN Respond(r, 400, "Dados incompletos")
                    ELSE [r EXCEPT !.pc = "User.findOne"])
  /\ UNCHANGED <<variant, TZ, usernameIndex, User, Churrasco, nextId, sent, hist>>

\* await User.findOne({ username }) of POST /users/login: 404 when there
\* is no such user, else the push of a token that the loaded document does
\* not include and the call of u.save().
UserFindOne(s) ==
  /\ req[s].pc = "User.findOne"
  /\ req[s].op = "login"
  /\ LET r == req[s]
         i == indexByUsername(User, r.body.username)
     IN  Continues(s,
           IF i = 0 THEN Respond(r, 404, "Usuario nao encontrado")
           ELSE IF includes(User[i].fcmTokens, r.body.fcmToken) THEN Respond(r, 200, "")
           ELSE [r EXCEPT !.pc = "u.save", !.doc = User[i]])
  /\ UNCHANGED <<variant, TZ, usernameIndex, User, Churrasco, nextId, sent, issued, hist>>

\* (Variant for C15: the new token replaces the stored tokens.)
UserSaveReplace(s) ==
  /\ req[s].pc = "u.save"
  /\ User' = [User EXCEPT ![indexByUsername(User, req[s].doc.username)].fcmTokens =
                             <<req[s].body.fcmToken>>]
  /\ Continues(s, [Respond(req[s], 200, "") EXCEPT !.wrote = TRUE])
  /\ UNCHANGED <<variant, TZ, usernameIndex, Churrasco, nextId, sent, issued, hist>>

\* await u.save(): the pushed token is appended to the stored fcmTokens of
\* the document User.findOne loaded (the first of that username).
UserSave(s) ==
  /\ req[s].pc = "u.save"
  /\ User' = [User EXCEPT ![indexByUsername(User, req[s].doc.username)].fcmTokens =
                             Append(@, req[s].body.fcmToken)]
  /\ Continues(s, [Respond(req[s], 200, "") EXCEPT !.wrote = TRUE])
  /\ UNCHANGED <<variant, TZ, usernameIndex, Churrasco, nextId, sent, issued, hist>>

\* A request to a route behind authMiddleware (app.use('/churrascos',
\* authMiddleware) and the invites route) arrives: authMiddleware up to its
\* await of User.findOne.
Guarded(s, r) ==
  /\ variant = "part_001"
  /\ Arrives(s, authMiddleware(r))
  /\ UNCHANGED <<variant, TZ, usernameIndex, User, Churrasco, nextId, sent, hist>>

\* The request in slot s, of the route op, waits for the User.findOne of
\* authMiddleware.
Authenticating(s, op) ==
  /\ req[s].pc = "User.findOne"
  /\ req[s].op = op

\* POST /churrascos arrives.
PostChurrascos(s, hdr, b) ==
  Guarded(s, [NewReq("create", hdr) EXCEPT !.body = b])

\* POST /churrascos once the User.findOne of authMiddleware has resolved,
\* up to its await of Churrasco.create(): the validation of the body and
\* the call of Churrasco.create, which builds the document (createdAt is
\* the time of the call, here the count of requests issued so far).
PostChurrascosHandler(s) ==
  /\ Authenticating(s, "create")
  /\ LET r == [req[s] EXCEPT !.user = req[s].hdr, !.at = issued]
         b == r.body
     IN  Continues(s, authMiddlewareNext(r,
           IF \/ Not(b.churrascoDate) \/ Not(b.hora) \/ b.local = ""
              \/ ~b.fornecidos.isArray \/ ~b.invitedUsers.isArray
             THEN Respond(r, 400, "Dados incompletos")
             ELSE [r EXCEPT !.pc = "Churrasco.create"]))
  /\ UNCHANGED <<variant, TZ, usernameIndex, User, Churrasco, nextId, sent, issued, hist>>

\* The document that the Churrasco.create of the request r stores under
\* the _id id.
created(id, r) ==
  CASE variant = "part_001" -> newChurrasco(id, r.body, r.user, r.at)
    [] variant = "part_000" -> newChurrascoPart000(id, r.body, r.at)
    [] variant = "mongo"    -> newChurrascoMongo(id, r.body, r.at)

\* await Churrasco.create({...}): the document is stored under a fresh
\* _id; the handler of part_001 then calls User.find, those of part_000
\* and of the MongoDB variant of server.js answer 201 with the id.
ChurrascoCreate(s) ==
  /\ req[s].pc = "Churrasco.create"
  /\ LET r == req[s] IN
       /\ Churrasco' = Append(Churrasco, created(nextId, r))
       /\ hist' = Append(hist, [op |-> "create", id |-> nextId, body |-> r.body,
                                by |-> IF variant = "part_001" THEN r.user
                                                               ELSE r.body.userName])
       /\ Continues(s, IF variant = "part_001"
                         THEN [r EXCEPT !.pc = "User.find", !.made = nextId,
                                        !.wrote = TRUE]
                         ELSE [Respond(r, 201, "") EXCEPT
                                 !.newId = nextId, !.made = nextId, !.wrote = TRUE])
  /\ nextId' = nextId + 1
  /\ UNCHANGED <<variant, TZ, usernameIndex, User, sent, issued>>

\* (Variant for C16: the tokens of every user are collected.)
UserFindAll(s) ==
  /\ req[s].pc = "User.find"
  /\ LET IsInvited(u) == TRUE
         Tokens(u)    == u.fcmTokens
         tokens       == flatMap(filter(User, IsInvited), Tokens)
     IN  IF tokens = <<>>
           THEN /\ Continues(s, [Respond(req[s], 201, "") EXCEPT !.newId = req[s].made])
                /\ sent' = sent
           ELSE /\ Continues(s, [req[s] EXCEPT !.pc = "sendMulticast", !.tokens = tokens])
                /\ sent' = Append(sent, [churrascoId |-> req[s].made,
                                         tokens |-> tokens])
  /\ UNCHANGED <<variant, TZ, usernameIndex, User, Churrasco, nextId, issued, hist>>

\* await User.find({ username: { $in: invitedUsers } }), the flatMap of the
\* tokens and, when there are any, the call of sendMulticast.
UserFind(s) ==
  /\ req[s].pc = "User.find"
  /\ LET IsInvited(u) == includes(req[s].body.invitedUsers.elems, u.username)
         Tokens(u)    == u.fcmTokens
         tokens       == flatMap(filter(User, IsInvited), Tokens)
     IN  IF tokens = <<>>
           THEN /\ Continues(s, [Respond(req[s], 201, "") EXCEPT !.newId = req[s].made])
                /\ sent' = sent
           ELSE /\ Continues(s, [req[s] EXCEPT !.pc = "sendMulticast", !.tokens = tokens])
                /\ sent' = Append(sent, [churrascoId |-> req[s].made,
                                         tokens |-> tokens])
  /\ UNCHANGED <<variant, TZ, usernameIndex, User, Churrasco, nextId, issued, hist>>

\* await admin.messaging().sendMulticast(...) resolves.
SendMulticastResolves(s) ==
  /\ req[s].pc = "sendMulticast"
  /\ Continues(s, [Respond(req[s], 201, "") EXCEPT !.newId = req[s].made])
  /\ UNCHANGED <<variant, TZ, usernameIndex, User, Churrasco, nextId, sent, issued, hist>>

\* (Variant for C5: the catch block deletes the churrasco it created.)
SendMulticastRejectsRollback(s) ==
  /\ req[s].pc = "sendMulticast"
  /\ Continues(s, Caught(req[s]))
  /\ Churrasco' = SelectSeq(Churrasco, LAMBDA c : c._id # req[s].made)
  /\ UNCHANGED <<variant, TZ, usernameIndex, User, nextId, sent, issued, hist>>

\* await admin.messaging().sendMulticast(...) rejects: the catch block.
SendMulticastRejects(s) ==
  /\ req[s].pc = "sendMulticast"
  /\ Continues(s, Caught(req[s]))
  /\ UNCHANGED <<variant, TZ, usernameIndex, User, Churrasco, nextId, sent, issued, hist>>

\* GET /churrascos arrives.
GetChurrascos(s, hdr, status) ==
  Guarded(s, [NewReq("list", hdr) EXCEPT !.query = status])

\* GET /churrascos once the User.findOne of authMiddleware has resolved,
\* up to its await of Churrasco.find(): status, now = new Date() (the
\* reading of the clock) and the call of Churrasco.find.
GetChurrascosHandler(s, now) ==
  /\ Authenticating(s, "list")
  /\ LET r == [req[s] EXCEPT !.user = req[s].hdr, !.now = now] IN
       Continues(s, authMiddlewareNext(r, [r EXCEPT !.pc = "Churrasco.find"]))
  /\ UNCHANGED <<variant, TZ, usernameIndex, User, Churrasco, nextId, sent, issued, hist>>

\* all.filter(...) of GET /churrascos and what the variant that runs makes
\* of the filtered documents.
listed(coll, status, now) ==
  CASE variant = "part_001" -> listChurrascos(coll, status, now)
    [] variant = "part_000" -> listChurrascosPart000(coll, status, now)
    [] variant = "mongo"    -> listChurrascosMongo(coll, status, now)

\* await Churrasco.find().lean() of GET /churrascos, the filter and the
\* response.
ChurrascoFind(s) ==
  /\ req[s].pc = "Churrasco.find"
  /\ Continues(s, [Respond(req[s], 200, "") EXCEPT
                     !.churrascos = listed(Churrasco, req[s].query, req[s].now)])
  /\ UNCHANGED <<variant, TZ, usernameIndex, User, Churrasco, nextId, sent, issued, hist>>

\* GET /churrascos/:id arrives.
GetChurrasco(s, hdr, id) ==
  Guarded(s, [NewReq("details", hdr) EXCEPT !.id = id])

\* GET /churrascos/:id once the User.findOne of authMiddleware has
\* resolved, up to its await of Churrasco.findById().lean().
GetChurrascoHandler(s) ==
  /\ Authenticating(s, "details")
  /\ LET r == [req[s] EXCEPT !.user = req[s].hdr] IN
       Continues(s, authMiddlewareNext(r, [r EXCEPT !.pc = "Churrasco.findById.lean"]))
  /\ UNCHANGED <<variant, TZ, usernameIndex, User, Churrasco, nextId, sent, issued, hist>>

\* Churrasco.findById(id): the position of the document in the collection,
\* 0 when there is none (null), -1 when the query rejects because the id
\* cannot be cast to an ObjectId (CastError).
findById(id) == IF ~IsObjectId(id) THEN -1 ELSE indexById(Churrasco, id)

\* The response of a handler whose findById did not give a document: the
\* catch block's 500 for a rejection, else the 404.
NotFound(r) ==
  IF findById(r.id) = -1 THEN Caught(r)
                         ELSE Respond(r, 404, "Churrasco nao encontrado")

\* The fields of the response of GET /churrascos/:id for the document c.
details(c) ==
  CASE variant = "part_001" -> mapChurrasco(c)
    [] variant = "part_000" -> mapChurrascoPart000(c)
    [] variant = "mongo"    -> detailsMongo(c)

\* await Churrasco.findById(req.params.id).lean() of GET /churrascos/:id
\* and the response.
ChurrascoFindByIdLean(s) ==
  /\ req[s].pc = "Churrasco.findById.lean"
  /\ LET r == req[s]
         i == findById(r.id)
     IN  Continues(s, IF i <= 0 THEN NotFound(r)
                      ELSE [Respond(r, 200, "") EXCEPT
                              !.churrascos = <<details(Churrasco[i])>>])
  /\ UNCHANGED <<variant, TZ, usernameIndex, User, Churrasco, nextId, sent, issued, hist>>

\* POST /churrascos/:id/confirm-presenca arrives.
PostConfirmPresenca(s, hdr, id, b) ==
  Guarded(s, [NewReq("confirm", hdr) EXCEPT !.id = id, !.body = b])

\* POST /churrascos/:id/decline-presenca arrives.
PostDeclinePresenca(s, hdr, id, b) ==
  Guarded(s, [NewReq("decline", hdr) EXCEPT !.id = id, !.body = b])

\* The body of the confirm or decline request r passes the validation:
\* if (!name || !Array.isArray(selectedItems)) return res.status(400) for
\* confirm-presenca, if (!name) return res.status(400) for
\* decline-presenca.
validPresenca(r) ==
  IF r.op = "confirm" THEN r.body.name # "" /\ r.body.selectedItems.isArray
                      ELSE r.body.name # ""

\* confirm-presenca and decline-presenca once the User.findOne of
\* authMiddleware has resolved, up to the await of Churrasco.findById():
\* the validation of the body and the call of Churrasco.findById.
PresencaHandler(s) ==
  /\ Authenticating(s, "confirm") \/ Authenticating(s, "decline")
  /\ LET r == [req[s] EXCEPT !.user = req[s].hdr] IN
       Continues(s, authMiddlewareNext(r,
         IF ~validPresenca(r) THEN Respond(r, 400, "Payload invalido")
                              ELSE [r EXCEPT !.pc = "Churrasco.findById"]))
  /\ UNCHANGED <<variant, TZ, usernameIndex, User, Churrasco, nextId, sent, issued, hist>>

\* await Churrasco.findById(req.params.id) of confirm-presenca and
\* decline-presenca, the pushes on the loaded document and the call of
\* c.save().  The MongoDB variant of server.js validates the body here,
\* after the 404, with messages of its own.
ChurrascoFindById(s) ==
  /\ req[s].pc = "Churrasco.findById"
  /\ LET r == req[s]
         i == findById(r.id)
     IN  Continues(s,
           IF i <= 0 THEN NotFound(r)
           ELSE IF variant = "mongo" /\ ~validPresenca(r)
             THEN Respond(r, 400, IF r.op = "confirm" THEN "Dados invalidos"
                                                      ELSE "Nome e obrigatorio")
           ELSE [r EXCEPT !.pc = "c.save", !.doc = Churrasco[i]])
  /\ UNCHANGED <<variant, TZ, usernameIndex, User, Churrasco, nextId, sent, issued, hist>>

\* (Variant for C21: the save is an upsert, which stores the loaded document
\* again when it is no longer stored.)
PresencaSaveUpsert(s) ==
  /\ req[s].pc = "c.save"
  /\ LET r == req[s] IN
       /\ Churrasco' = IF indexById(Churrasco, r.doc._id) = 0
                         THEN Append(Churrasco, pushed(r.doc, deltaOf(r)))
                         ELSE save(Churrasco, r.doc, deltaOf(r))
       /\ hist' = Append(hist, [op |-> r.op, id |-> r.id, body |-> r.body,
                                loaded |-> r.doc])
       /\ Continues(s, [Respond(r, 200, "") EXCEPT !.wrote = TRUE])
  /\ UNCHANGED <<variant, TZ, usernameIndex, User, nextId, sent, issued>>

\* await c.save() of confirm-presenca and decline-presenca (the three
\* MongoDB variants): the pushes reach the stored document; when the
\* document is no longer stored, the update matches nothing, save rejects
\* (VersionError or DocumentNotFoundError) and the catch block answers 500.
PresencaSave(s) ==
  /\ req[s].pc = "c.save"
  /\ LET r == req[s] IN
       IF indexById(Churrasco, r.doc._id) = 0
         THEN /\ Continues(s, Caught(r))
              /\ UNCHANGED <<Churrasco, hist>>
         ELSE /\ Churrasco' = save(Churrasco, r.doc, deltaOf(r))
              /\ hist' = Append(hist, [op |-> r.op, id |-> r.id, body |-> r.body,
                                       loaded |-> r.doc])
              /\ Continues(s, [Respond(r, 200, "") EXCEPT !.wrote = TRUE])
  /\ UNCHANGED <<variant, TZ, usernameIndex, User, nextId, sent, issued>>

\* DELETE /churrascos/:id arrives.
DeleteChurrasco(s, hdr, id) ==
  Guarded(s, [NewReq("cancel", hdr) EXCEPT !.id = id])

\* DELETE /churrascos/:id once the User.findOne of authMiddleware has
\* resolved, up to its await of Churrasco.findByIdAndDelete().
DeleteChurrascoHandler(s) ==
  /\ Authenticating(s, "cancel")
  /\ LET r == [req[s] EXCEPT !.user = req[s].hdr] IN
       Continues(s, authMiddlewareNext(r,
         [r EXCEPT !.pc = "Churrasco.findByIdAndDelete"]))
  /\ UNCHANGED <<variant, TZ, usernameIndex, User, Churrasco, nextId, sent, issued, hist>>

\* await Churrasco.findByIdAndDelete(req.params.id) of DELETE
\* /churrascos/:id and the response: a rejection and no document as for
\* findById, else the document is removed.
ChurrascoFindByIdAndDelete(s) ==
  /\ req[s].pc = "Churrasco.findByIdAndDelete"
  /\ LET r == req[s]
         i == findById(r.id)
     IN  IF i <= 0
           THEN /\ Continues(s, NotFound(r))
                /\ UNCHANGED <<Churrasco, hist>>
           ELSE /\ Churrasco' = removeAt(Churrasco, i)
                /\ hist' = Append(hist, [op |-> "cancel", id |-> r.id])
                /\ Continues(s, [Respond(r, 200, "") EXCEPT !.wrote = TRUE])
  /\ UNCHANGED <<variant, TZ, usernameIndex, User, nextId, sent, issued>>

\* GET /users/:username/invites arrives.
GetInvites(s, hdr, username) ==
  Guarded(s, [NewReq("invites", hdr) EXCEPT !.target = username])

\* GET /users/:username/invites once the User.findOne of authMiddleware
\* has resolved, up to its await of Churrasco.find({ invitedUsers: u }).
GetInvitesHandler(s) ==
  /\ Authenticating(s, "invites")
  /\ LET r == [req[s] EXCEPT !.user = req[s].hdr] IN
       Continues(s, authMiddlewareNext(r, [r EXCEPT !.pc = "Churrasco.find.invited"]))
  /\ UNCHANGED <<variant, TZ, usernameIndex, User, Churrasco, nextId, sent, issued, hist>>

\* await Churrasco.find({ invitedUsers: u }).lean() of GET
\* /users/:username/invites, the filter and the response.
ChurrascoFindInvited(s) ==
  /\ req[s].pc = "Churrasco.find.invited"
  /\ Continues(s, [Respond(req[s], 200, "") EXCEPT
                     !.churrascos = pendingInvites(Churrasco, req[s].target)])
  /\ UNCHANGED <<variant, TZ, usernameIndex, User, Churrasco, nextId, sent, issued, hist>>
\* ------------------------------ handlers of part_000 and of server.js
\* These variants have no users and no authentication: no handler looks at
\* the X-User header.  The handlers of part_000 and of the MongoDB variant
\* of server.js await the operations on the Churrasco collection that
\* those of part_001 await; the handlers of the in-memory variant are
\* synchronous, so a request is answered in the step in which it arrives.

\* POST /churrascos of part_000 up to its await of Churrasco.create(): the
\* validation of the body and the call of Churrasco.create.
PostChurrascosPart000(s, b) ==
  /\ variant = "part_000"
  /\ LET r == [NewReq("create", "") EXCEPT !.body = b, !.at = issued + 1] IN
       Arrives(s, IF \/ Not(b.churrascoDate) \/ Not(b.hora) \/ b.local = ""
                     \/ b.userName = "" \/ ~b.fornecidos.isArray
                    THEN Respond(r, 400, "Dados incompletos")
                    ELSE [r EXCEPT !.pc = "Churrasco.create"])
  /\ UNCHANGED <<variant, TZ, usernameIndex, User, Churrasco, nextId, sent, hist>>

\* POST /churrascos of the MongoDB variant of server.js up to its await of
\* Churrasco.create(): the validation, which asks for a token too, and the
\* call of Churrasco.create.
PostChurrascosMongo(s, b) ==
  /\ variant = "mongo"
  /\ LET r == [NewReq("create", "") EXCEPT !.body = b, !.at = issued + 1] IN
       Arrives(s, IF \/ Not(b.churrascoDate) \/ Not(b.hora) \/ b.local = ""
                     \/ ~b.fornecidos.isArray \/ b.userName = "" \/ b.token = ""
                    THEN Respond(r, 400, "Dados incompletos")
                    ELSE [r EXCEPT !.pc = "Churrasco.create"])
  /\ UNCHANGED <<variant, TZ, usernameIndex, User, Churrasco, nextId, sent, hist>>

\* POST /churrascos of the in-memory variant: validation and
\* churrascos.set under a fresh uuid.
PostChurrascosInMemory(b) ==
  /\ variant = "memory"
  /\ LET r == [NewReq("create", "") EXCEPT !.body = b, !.at = issued + 1] IN
       IF \/ Not(b.churrascoDate) \/ Not(b.hora) \/ b.local = ""
          \/ ~b.fornecidos.isArray \/ b.userName = "" \/ b.token = ""
         THEN /\ Answers(Respond(r, 400, "Dados incompletos"))
              /\ UNCHANGED <<Churrasco, nextId, hist>>
         ELSE /\ Churrasco' = Append(Churrasco, newChurrascoInMemory(nextId, b, r.at))
              /\ nextId' = nextId + 1
              /\ hist' = Append(hist, [op |-> "create", id |-> nextId, body |-> b,
                                       by |-> b.userName])
              /\ Answers([Respond(r, 201, "") EXCEPT
                            !.newId = nextId, !.made = nextId, !.wrote = TRUE])
  /\ UNCHANGED <<variant, TZ, usernameIndex, User, sent>>

\* GET /churrascos of part_000 up to its await of Churrasco.find(): status,
\* now = new Date() and the call of Churrasco.find.
GetChurrascosPart000(s, status, now) ==
  /\ variant = "part_000"
  /\ Arrives(s, [NewReq("list", "") EXCEPT !.query = status, !.now = now,
                                           !.pc = "Churrasco.find"])
  /\ UNCHANGED <<variant, TZ, usernameIndex, User, Churrasco, nextId, sent, hist>>

\* GET /churrascos of the MongoDB variant of server.js up to its await of
\* Churrasco.find().
GetChurrascosMongo(s, status, now) ==
  /\ variant = "mongo"
  /\ Arrives(s, [NewReq("list", "") EXCEPT !.query = status, !.now = now,
                                           !.pc = "Churrasco.find"])
  /\ UNCHANGED <<variant, TZ, usernameIndex, User, Churrasco, nextId, sent, hist>>

\* GET /churrascos of the in-memory variant.  The handler is synchronous
\* and has no try/catch: when a split throws, the error handler of Express
\* answers 500.
GetChurrascosInMemory(status, now) ==
  /\ variant = "memory"
  /\ LET r == [NewReq("list", "") EXCEPT !.query = status, !.now = now] IN
       IF splitThrows(Churrasco)
         THEN Answers(Respond(r, 500, "Internal Server Error"))
         ELSE Answers([Respond(r, 200, "") EXCEPT
                         !.churrascos = listChurrascosInMemory(Churrasco, status, now)])
  /\ UNCHANGED <<variant, TZ, usernameIndex, User, Churrasco, nextId, sent, hist>>

\* GET /churrascos/:id of part_000 up to its await of
\* Churrasco.findById().lean().
GetChurrascoPart000(s, id) ==
  /\ variant = "part_000"
  /\ Arrives(s, [NewReq("details", "") EXCEPT !.id = id,
                                              !.pc = "Churrasco.findById.lean"])
  /\ UNCHANGED <<variant, TZ, usernameIndex, User, Churrasco, nextId, sent, hist>>

\* GET /churrascos/:id of the MongoDB variant of server.js up to its await
\* of Churrasco.findById().lean().
GetChurrascoMongo(s, id) ==
  /\ variant = "mongo"
  /\ Arrives(s, [NewReq("details", "") EXCEPT !.id = id,
                                              !.pc = "Churrasco.findById.lean"])
  /\ UNCHANGED <<variant, TZ, usernameIndex, User, Churrasco, nextId, sent, hist>>

\* GET /churrascos/:id of the in-memory variant: churrascos.get, where
\* every text is a key.
GetChurrascoInMemory(id) ==
  /\ variant = "memory"
  /\ LET r == [NewReq("details", "") EXCEPT !.id = id]
         i == get(Churrasco, id)
     IN  Answers(IF i = 0 THEN Respond(r, 404, "Churrasco nao encontrado")
                 ELSE [Respond(r, 200, "") EXCEPT
                         !.churrascos = <<detailsInMemory(Churrasco[i])>>])
  /\ UNCHANGED <<variant, TZ, usernameIndex, User, Churrasco, nextId, sent, hist>>

\* confirm-presenca and decline-presenca of part_000 up to the await of
\* Churrasco.findById(): the validation of the body and the call of
\* Churrasco.findById.
PresencaPart000(s, op, id, b) ==
  /\ variant = "part_000"
  /\ LET r == [NewReq(op, "") EXCEPT !.id = id, !.body = b] IN
       Arrives(s, IF ~validPresenca(r) THEN Respond(r, 400, "Payload invalido")
                                       ELSE [r EXCEPT !.pc = "Churrasco.findById"])
  /\ UNCHANGED <<variant, TZ, usernameIndex, User, Churrasco, nextId, sent, hist>>

PostConfirmPresencaPart000(s, id, b) == PresencaPart000(s, "confirm", id, b)

PostDeclinePresencaPart000(s, id, b) == PresencaPart000(s, "decline", id, b)

\* confirm-presenca and decline-presenca of the MongoDB variant of
\* server.js up to the await of Churrasco.findById(), which comes before
\* the validation of the body.
PresencaMongo(s, op, id, b) ==
  /\ variant = "mongo"
  /\ Arrives(s, [NewReq(op, "") EXCEPT !.id = id, !.body = b,
                                       !.pc = "Churrasco.findById"])
  /\ UNCHANGED <<variant, TZ, usernameIndex, User, Churrasco, nextId, sent, hist>>

PostConfirmPresencaMongo(s, id, b) == PresencaMongo(s, "confirm", id, b)

PostDeclinePresencaMongo(s, id, b) == PresencaMongo(s, "decline", id, b)

\* confirm-presenca and decline-presenca of the in-memory variant, which
\* await nothing: churrascos.get, the 404, the validation of the body (with
\* its message), the pushes on the stored object and churrascos.set.
PresencaInMemory(op, id, b, valid, message) ==
  /\ variant = "memory"
  /\ LET r == [NewReq(op, "") EXCEPT !.id = id, !.body = b]
         k == get(Churrasco, id)
     IN  IF k = 0
           THEN /\ Answers(Respond(r, 404, "Churrasco nao encontrado"))
                /\ UNCHANGED <<Churrasco, hist>>
         ELSE IF ~valid
           THEN /\ Answers(Respond(r, 400, message))
                /\ UNCHANGED <<Churrasco, hist>>
         ELSE /\ Churrasco' = [Churrasco EXCEPT ![k] = pushed(@, deltaOf(r))]
              /\ hist' = Append(hist, [op |-> op, id |-> id, body |-> b,
                                       loaded |-> Churrasco[k]])
              /\ Answers([Respond(r, 200, "") EXCEPT !.wrote = TRUE])
  /\ UNCHANGED <<variant, TZ, usernameIndex, User, nextId, sent>>

PostConfirmPresencaInMemory(id, b) ==
  PresencaInMemory("confirm", id, b, b.name # "" /\ b.selectedItems.isArray,
                   "Dados invalidos")

PostDeclinePresencaInMemory(id, b) ==
  PresencaInMemory("decline", id, b, b.name # "", "Nome e obrigatorio")

\* DELETE /churrascos/:id of part_000 and of the MongoDB variant of
\* server.js up to its await of Churrasco.findByIdAndDelete().  The
\* in-memory variant has no such route.
DeleteChurrascoNoAuth(s, id) ==
  /\ variant \in NoAuthVariants
  /\ Arrives(s, [NewReq("cancel", "") EXCEPT !.id = id,
                                             !.pc = "Churrasco.findByIdAndDelete"])
  /\ UNCHANGED <<variant, TZ, usernameIndex, User, Churrasco, nextId, sent, hist>>

\* -------------------------------------------------------- specifications

\* The database earlier runs left: alice and bob have registered and each
\* has logged in from one device, and alice has created the churrasco of
\* the first create body.
SeededUsers ==
  << [username |-> "alice", displayName |-> "Alice", fcmTokens |-> <<"ta">>],
     [username |-> "bob", displayName |-> "Bob", fcmTokens |-> <<"tb">>] >>

\* The document the variant v stores for the body b under the _id id.
Stores(v, id, b) ==
  CASE v = "part_001" -> newChurrasco(id, b, "alice", 0)
    [] v = "part_000" -> newChurrascoPart000(id, b, 0)
    [] v = "mongo"    -> newChurrascoMongo(id, b, 0)
    [] v = "memory"   -> newChurrascoInMemory(id, b, 0)

SeededChurrasco == Stores("part_001", 1, ParkBody)

\* The server starts with no request in flight.
NoRequests ==
  /\ req = [s \in Slots |-> Idle]
  /\ res = Idle
  /\ sent = <<>>
  /\ issued = 0

\* The database is empty and the unique index on username is still to be
\* built, or it holds what earlier runs left, the index included (part_000
\* and the MongoDB variant of server.js have no users); the Map of the
\* in-memory variant starts empty.
InitStore ==
  \/ /\ User = <<>> /\ Churrasco = <<>> /\ nextId = 1 /\ hist = <<>>
     /\ usernameIndex = IF variant = "part_001" THEN "building" ELSE "none"
  \/ /\ variant # "memory"
     /\ User = IF variant = "part_001" THEN SeededUsers ELSE <<>>
     /\ usernameIndex = IF variant = "part_001" THEN "built" ELSE "none"
     /\ Churrasco = <<Stores(variant, 1, ParkBody)>>
     /\ nextId = 2
     /\ hist = <<[op |-> "create", id |-> 1, body |-> ParkBody, by |-> "alice"]>>

\* part_001, the variant with users and authentication.
Init ==
  /\ variant = "part_001"
  /\ TZ = "UTC"
  /\ InitStore
  /\ NoRequests

Next ==
  \/ IndexBuilds
  \/ \E s \in Slots, b \in RegisterBodies : PostUsersRegister(s, b)
  \/ \E s \in Slots : UserCreate(s)
  \/ \E s \in Slots, b \in LoginBodies : PostUsersLogin(s, b)
  \/ \E s \in Slots : UserFindOne(s)
  \/ \E s \in Slots : UserSave(s)
  \/ \E s \in Slots, h \in Headers, b \in CreateBodies : PostChurrascos(s, h, b)
  \/ \E s \in Slots : PostChurrascosHandler(s)
  \/ \E s \in Slots : ChurrascoCreate(s)
  \/ \E s \in Slots : UserFind(s)
  \/ \E s \in Slots : SendMulticastResolves(s)
  \/ \E s \in Slots : SendMulticastRejects(s)
  \/ \E s \in Slots, h \in Headers, st \in Statuses : GetChurrascos(s, h, st)
  \/ \E s \in Slots, t \in NowValues : GetChurrascosHandler(s, t)
  \/ \E s \in Slots : ChurrascoFind(s)
  \/ \E s \in Slots, h \in Headers, id \in KnownIds : GetChurrasco(s, h, id)
  \/ \E s \in Slots : GetChurrascoHandler(s)
  \/ \E s \in Slots : ChurrascoFindByIdLean(s)
  \/ \E s \in Slots, h \in Headers, id \in KnownIds, b \in ConfirmBodies :
       PostConfirmPresenca(s, h, id, b)
  \/ \E s \in Slots, h \in Headers, id \in KnownIds, b \in DeclineBodies :
       PostDeclinePresenca(s, h, id, b)
  \/ \E s \in Slots : PresencaHandler(s)
  \/ \E s \in Slots : ChurrascoFindById(s)
  \/ \E s \in Slots : PresencaSave(s)
  \/ \E s \in Slots, h \in Headers, id \in KnownIds : DeleteChurrasco(s, h, id)
  \/ \E s \in Slots : DeleteChurrascoHandler(s)
  \/ \E s \in Slots : ChurrascoFindByIdAndDelete(s)
  \/ \E s \in Slots, h \in Headers, u \in Usernames : GetInvites(s, h, u)
  \/ \E s \in Slots : GetInvitesHandler(s)
  \/ \E s \in Slots : ChurrascoFindInvited(s)

Spec == Init /\ [][Next]_vars

\* Bodies of POST /churrascos of the in-memory variant, which stores a
\* value as it came: the create bodies and one whose churrascoDate is a
\* number.
InMemoryBodies == CreateBodies \cup {[ParkBody EXCEPT !.churrascoDate = DateNumber]}

\* Any of the four variants.
InitVariants ==
  /\ variant \in Variants
  /\ TZ = "UTC"
  /\ InitStore
  /\ NoRequests

NextVariants ==
  \/ Next
  \/ \E s \in Slots, b \in CreateBodies : PostChurrascosPart000(s, b)
  \/ \E s \in Slots, b \in CreateBodies : PostChurrascosMongo(s, b)
  \/ \E b \in InMemoryBodies : PostChurrascosInMemory(b)
  \/ \E s \in Slots, st \in Statuses, t \in NowValues : GetChurrascosPart000(s, st, t)
  \/ \E s \in Slots, st \in Statuses, t \in NowValues : GetChurrascosMongo(s, st, t)
  \/ \E st \in Statuses, t \in NowValues : GetChurrascosInMemory(st, t)
  \/ \E s \in Slots, id \in KnownIds : GetChurrascoPart000(s, id)
  \/ \E s \in Slots, id \in KnownIds : GetChurrascoMongo(s, id)
  \/ \E id \in KnownIds : GetChurrascoInMemory(id)
  \/ \E s \in Slots, id \in KnownIds, b \in ConfirmBodies :
       PostConfirmPresencaPart000(s, id, b)
  \/ \E s \in Slots, id \in KnownIds, b \in DeclineBodies :
       PostDeclinePresencaPart000(s, id, b)
  \/ \E s \in Slots, id \in KnownIds, b \in ConfirmBodies :
       PostConfirmPresencaMongo(s, id, b)
  \/ \E s \in Slots, id \in KnownIds, b \in DeclineBodies :
       PostDeclinePresencaMongo(s, id, b)
  \/ \E id \in KnownIds, b \in ConfirmBodies : PostConfirmPresencaInMemory(id, b)
  \/ \E id \in KnownIds, b \in DeclineBodies : PostDeclinePresencaInMemory(id, b)
  \/ \E s \in Slots, id \in KnownIds : DeleteChurrascoNoAuth(s, id)

SpecVariants == InitVariants /\ [][NextVariants]_vars

\* ------------------------------------------- storage and transport faults

\* The routes behind authMiddleware.
AuthOps == {"create", "list", "details", "confirm", "decline", "cancel", "invites"}

\* The operations on the database that a handler awaits inside its
\* try/catch (the User.findOne of POST /users/login is one of them, the
\* User.findOne of authMiddleware is not).
AwaitedOps ==
  {"User.create", "u.save", "Churrasco.create", "User.find", "Churrasco.find",
   "Churrasco.findById.lean", "Churrasco.findById", "c.save",
   "Churrasco.findByIdAndDelete", "Churrasco.find.invited"}

\* The async function that handles the request r, which is or will be in
\* slot s, rejects outside any try/catch, so the rejection is the rejection
\* of the promise the function returned, and what becomes of it depends on
\* the build (the repository pins no versions): a router that does not look
\* at the returned promise never answers the request, which stays in its
\* slot as "unanswered"; a runtime that ends the process on an unhandled
\* rejection takes every request in flight with it; a router that forwards
\* rejected promises to its error handler answers 500.
Unhandled(s, r) ==
  \/ /\ req' = [req EXCEPT ![s] = [r EXCEPT !.pc = "unanswered"]]
     /\ res' = res
  \/ /\ req' = [t \in Slots |->
                  IF t = s THEN [r EXCEPT !.pc = "unanswered"]
                  ELSE IF req[t].pc = "idle" THEN req[t]
                  ELSE [req[t] EXCEPT !.pc = "unanswered"]]
     /\ res' = res
  \/ /\ req' = [req EXCEPT ![s] = Idle]
     /\ res' = Respond(r, 500, "Internal Server Error")

\* The await of User.findOne in authMiddleware rejects: authMiddleware is
\* an async function without try/catch.
AuthFindOneRejects(s) ==
  /\ req[s].pc = "User.findOne"
  /\ req[s].op \in AuthOps
  /\ Unhandled(s, req[s])
  /\ UNCHANGED <<variant, TZ, usernameIndex, User, Churrasco, nextId, sent, issued, hist>>

\* The database operation a request waits for rejects: the handler's catch
\* block answers 500 and nothing is written (register's too, for an error
\* other than E11000).
AwaitRejects(s) ==
  /\ \/ req[s].pc \in AwaitedOps
     \/ req[s].pc = "User.findOne" /\ req[s].op = "login"
  /\ Continues(s, Caught(req[s]))
  /\ UNCHANGED <<variant, TZ, usernameIndex, User, Churrasco, nextId, sent, issued, hist>>

\* The operation the request in slot s awaits settles, one way or the other.
Settle(s) ==
  \/ UserCreate(s)
  \/ UserFindOne(s)
  \/ UserSave(s)
  \/ PostChurrascosHandler(s)
  \/ \E t \in NowValues : GetChurrascosHandler(s, t)
  \/ GetChurrascoHandler(s)
  \/ PresencaHandler(s)
  \/ DeleteChurrascoHandler(s)
  \/ GetInvitesHandler(s)
  \/ AuthFindOneRejects(s)
  \/ ChurrascoCreate(s)
  \/ UserFind(s)
  \/ SendMulticastResolves(s)
  \/ SendMulticastRejects(s)
  \/ ChurrascoFind(s)
  \/ ChurrascoFindByIdLean(s)
  \/ ChurrascoFindById(s)
  \/ PresencaSave(s)
  \/ ChurrascoFindByIdAndDelete(s)
  \/ ChurrascoFindInvited(s)
  \/ AwaitRejects(s)

NextFaults ==
  \/ Next
  \/ \E s \in Slots : AuthFindOneRejects(s)
  \/ \E s \in Slots : AwaitRejects(s)

\* The server with faults. The database driver and the transport settle
\* every operation they were handed (with its result or, after their
\* timeouts, with an error), hence the weak fairness of Settle.
SpecFaults == Init /\ [][NextFaults]_vars /\ \A s \in Slots : WF_vars(Settle(s))

\* ------------------------------------------- GET /churrascos on its own

\* Texts of churrascoDate and hora that a body may carry (POST /churrascos
\* stores any non-empty text): a local time that the change to summer time
\* skips in America/New_York and one that the change back repeats, a day
\* past the end of its month, an hora with seconds, with seconds that are
\* no number, without minutes, with an exponent, and with white space.
DateGap == <<"0", "9", "/", "0", "3", "/", "2", "0", "2", "5">>

DateOverlap == <<"0", "2", "/", "1", "1", "/", "2", "0", "2", "5">>

DateOverflow == <<"3", "1", "/", "0", "2", "/", "2", "0", "2", "5">>

HoraGap == <<"0", "2", ":", "3", "0">>

HoraOverlap == <<"0", "1", ":", "3", "0">>

HoraSeconds == <<"2", "0", ":", "0", "0", ":", "3", "0">>

HoraBadSeconds == <<"2", "0", ":", "0", "0", ":", "x", "x">>

HoraNoMinutes == <<"2", "0">>

HoraExponent == <<"1", "e", "1", ":", "0", "0">>

HoraSpaces == <<" ", "2", "0", " ", ":", "0", "0">>

\* The last two cases are a churrascoDate and an hora that are numbers.

ListCases ==
  { <<Date2025, Hora20>>, <<DateIso, Hora20>>, <<DateGap, HoraGap>>,
    <<DateOverlap, HoraOverlap>>, <<DateOverflow, Hora20>>,
    <<Date2025, HoraSeconds>>, <<Date2025, HoraBadSeconds>>,
    <<Date2025, HoraNoMinutes>>, <<Date2025, HoraExponent>>,
    <<Date2025, HoraSpaces>>, <<DateNumber, Hora20>>, <<Date2025, HoraNumber>> }

ListBodies ==
  { [ParkBody EXCEPT !.churrascoDate = c[1], !.hora = c[2]] : c \in ListCases }

\* Readings of the clock: 25/12/2025 20:00 UTC, 15 seconds later, 26/12/2025
\* 01:00 UTC (20:00 in New York), 09/03/2025 07:00 UTC (03:00 in New York,
\* after the skipped hour) and 02/11/2025 06:15 UTC (the second 01:15 in
\* New York).
ListNows ==
  { TimeValue(20447, 72000000), TimeValue(20447, 72015000),
    TimeValue(20448, 3600000), TimeValue(20156, 25200000),
    TimeValue(20394, 22500000) }

\* Any variant in any zone; a database holds the churrasco of the first
\* create body and one of a list body, the Map of the in-memory variant
\* starts empty.
InitList ==
  /\ variant \in Variants
  /\ TZ \in Zones
  /\ usernameIndex = IF variant = "part_001" THEN "built" ELSE "none"
  /\ \/ /\ variant = "memory"
        /\ User = <<>> /\ Churrasco = <<>> /\ nextId = 1 /\ hist = <<>>
     \/ /\ variant # "memory"
        /\ User = IF variant = "part_001" THEN SeededUsers ELSE <<>>
        /\ \E b \in ListBodies :
             /\ Churrasco = <<Stores(variant, 1, ParkBody), Stores(variant, 2, b)>>
             /\ hist = <<[op |-> "create", id |-> 1, body |-> ParkBody, by |-> "alice"],
                         [op |-> "create", id |-> 2, body |-> b, by |-> "alice"]>>
        /\ nextId = 3
  /\ NoRequests

NextList ==
  \/ \E b \in ListBodies : PostChurrascosInMemory(b)
  \/ \E s \in Slots, h \in Headers, st \in Statuses : GetChurrascos(s, h, st)
  \/ \E s \in Slots, t \in ListNows : GetChurrascosHandler(s, t)
  \/ \E s \in Slots, st \in Statuses, t \in ListNows : GetChurrascosPart000(s, st, t)
  \/ \E s \in Slots, st \in Statuses, t \in ListNows : GetChurrascosMongo(s, st, t)
  \/ \E s \in Slots : ChurrascoFind(s)
  \/ \E st \in Statuses, t \in ListNows : GetChurrascosInMemory(st, t)

SpecList == InitList /\ [][NextList]_vars

\* ------------------------------------- POST /send-notification (variants)

\* The variants of the server that have the route: the in-memory one with
\* data-only messages, the MongoDB one of server.js, and part_000.
NotifyVariants == {"memory", "mongo", "part_000"}

\* A JSON value of a payload: absent (undefined), null, a text, an array
\* of texts or a number (s is then its decimal text).
Undefined == [kind |-> "undefined", s |-> "", elems |-> <<>>]

Null == [kind |-> "null", s |-> "", elems |-> <<>>]

Str(s) == [kind |-> "string", s |-> s, elems |-> <<>>]

List(elems) == [kind |-> "array", s |-> "", elems |-> elems]

NumberOf(s) == [kind |-> "number", s |-> s, elems |-> <<>>]

\* Array.prototype.join(sep) on an array of texts.
RECURSIVE join(_, _)
join(elems, sep) ==
  IF elems = <<>> THEN ""
  ELSE IF Len(elems) = 1 THEN elems[1]
  ELSE elems[1] \o sep \o join(Tail(elems), sep)

\* String(v): "undefined" and "null" for the absent values, the text
\* itself, the decimal text of a number, and the elements of an array
\* joined with ",".
String(v) ==
  CASE v.kind = "undefined" -> "undefined"
    [] v.kind = "null"      -> "null"
    [] v.kind = "string"    -> v.s
    [] v.kind = "number"    -> v.s
    [] v.kind = "array"     -> join(v.elems, ",")

\* !v: undefined, null, the empty text and the number 0 are falsy, an
\* array is not.
Falsy(v) ==
  \/ v.kind \in {"undefined", "null"}
  \/ v.kind = "string" /\ v.s = ""
  \/ v.kind = "number" /\ v.s = "0"

\* v || ''
OrEmpty(v) == IF Falsy(v) THEN Str("") ELSE v

\* Array.isArray(v) ? v.join(",") : String(v || "")
joinOrEmpty(v) ==
  IF v.kind = "array" THEN join(v.elems, ",") ELSE String(OrEmpty(v))

\* Array.isArray(v) ? v.join(',') : String(v)
joinOrString(v) ==
  IF v.kind = "array" THEN join(v.elems, ",") ELSE String(v)

\* String.prototype.indexOf: the first position at which the text pattern
\* occurs in the text s, 0 when it does not occur.
indexOf(s, pattern) ==
  LET n == Len(pattern)
      Last == Len(s) - n + 1
      At(i) == SubSeq(s, i, i + n - 1) = pattern
  IN  IF \E i \in 1..Last : At(i)
        THEN CHOOSE i \in 1..Last : At(i) /\ \A j \in 1..(i - 1) : ~At(j)
        ELSE 0

\* to.replace('/topics/', ''): the text without the first occurrence of
\* '/topics/', wherever it is.
replaceTopics(to) ==
  LET i == indexOf(to, "/topics/")
  IN  IF i = 0 THEN to ELSE SubSeq(to, 1, i - 1) \o SubSeq(to, i + 8, Len(to))

\* Payloads of POST /send-notification: target is topic (data-only variant)
\* or to, title and body are the texts of the notification, data is absent
\* or an object.  One payload per value of data.fornecidos, and one per
\* further target: a bare name, a text with '/topics/' inside, one with
\* '/topics/' twice, the empty text, and a number; one payload has no data.
NotifyData(f) ==
  [id |-> Str("7"), churrascoDate |-> Str("25/12/2025"), hora |-> Undefined,
   local |-> Str("Park"), fornecidos |-> f, itensNaoFornecidos |-> Null]

FornecidosValues ==
  { Undefined, Null, Str(""), Str("beer"), List(<<>>), List(<<"beer", "ice">>) }

Targets ==
  { Str("churras"), Str("x/topics/y"), Str("/topics//topics/a"), Str(""), NumberOf("7") }

NotifyPayloads ==
  { [target |-> Str("/topics/churras"), title |-> "Churrasco",
     body |-> "Hoje", hasData |-> TRUE, data |-> NotifyData(f)] :
       f \in FornecidosValues }
  \cup
  { [target |-> t, title |-> "Churrasco",
     body |-> "Hoje", hasData |-> TRUE, data |-> NotifyData(List(<<"beer">>))] :
       t \in Targets }
  \cup
  { [target |-> Str("churras"), title |-> "Churrasco",
     body |-> "Hoje", hasData |-> FALSE, data |-> NotifyData(Undefined)] }

\* The message each variant builds from a valid payload.  The data-only
\* variant passes topic on as it came; the other two call to.replace, which
\* a text has.
messageDataOnly(p) ==
  [data |-> [title |-> String(Str(p.title)),
             body |-> String(Str(p.body)),
             id |-> String(OrEmpty(p.data.id)),
             churrascoDate |-> String(OrEmpty(p.data.churrascoDate)),
             hora |-> String(OrEmpty(p.data.hora)),
             local |-> String(OrEmpty(p.data.local)),
             fornecidos |-> joinOrEmpty(p.data.fornecidos),
             itensNaoFornecidos |-> joinOrEmpty(p.data.itensNaoFornecidos)],
   topic |-> p.target]

messageMongo(p) ==
  [notification |-> [title |-> p.title, body |-> p.body],
   data |-> [id |-> String(OrEmpty(p.data.id)),
             churrascoDate |-> String(OrEmpty(p.data.churrascoDate)),
             hora |-> String(OrEmpty(p.data.hora)),
             local |-> String(OrEmpty(p.data.local)),
             fornecidos |-> joinOrString(p.data.fornecidos)],
   topic |-> Str(replaceTopics(p.target.s))]

messagePart000(p) ==
  [notification |-> [title |-> p.title, body |-> p.body],
   data |-> [id |-> String(OrEmpty(p.data.id)),
             churrascoDate |-> String(OrEmpty(p.data.churrascoDate)),
             hora |-> String(OrEmpty(p.data.hora)),
             local |-> String(OrEmpty(p.data.local)),
             fornecidos |-> String(OrEmpty(p.data.fornecidos))],
   topic |-> Str(replaceTopics(p.target.s))]

message(v, p) ==
  CASE v = "memory"   -> messageDataOnly(p)
    [] v = "mongo"    -> messageMongo(p)
    [] v = "part_000" -> messagePart000(p)

\* POST /send-notification up to its await of admin.messaging().send():
\* validation, then the message is built and handed to the transport.  The
\* request remembers the variant that received it and its payload.  In the
\* MongoDB variant and part_000 the message is built before the try block:
\* for a to that is no text, to.replace is no function, the async handler
\* rejects and nothing is handed to the transport.
PostSendNotification(s, p) ==
  /\ variant \in NotifyVariants
  /\ LET r == [NewReq("notify", "") EXCEPT !.body = [variant |-> variant, payload |-> p]]
     IN  IF Falsy(p.target) \/ p.title = "" \/ p.body = "" \/ ~p.hasData
           THEN /\ Arrives(s, Respond(r, 400, IF variant = "memory"
                                                 THEN "Payload invalido. Certifique-se"
                                                 ELSE "Payload invalido"))
                /\ sent' = sent
         ELSE IF variant # "memory" /\ p.target.kind # "string"
           THEN /\ CanIssue
                /\ FreeSlot(s)
                /\ Unhandled(s, r)
                /\ issued' = issued + 1
                /\ sent' = sent
           ELSE /\ sent' = Append(sent, [variant |-> variant, payload |-> p,
                                         message |-> message(variant, p)])
                /\ Arrives(s, [r EXCEPT !.pc = "send"])
  /\ UNCHANGED <<variant, TZ, usernameIndex, User, Churrasco, nextId, hist>>

\* await admin.messaging().send(message) resolves.  The Admin SDK reads the
\* topic of a message as a text and fails for another value; which texts
\* the service accepts is left open.
SendResolves(s) ==
  /\ req[s].pc = "send"
  /\ message(req[s].body.variant, req[s].body.payload).topic.kind = "string"
  /\ Continues(s, Respond(req[s], 200, ""))
  /\ UNCHANGED <<variant, TZ, usernameIndex, User, Churrasco, nextId, sent, issued, hist>>

\* await admin.messaging().send(message) rejects: the catch block.
SendRejects(s) ==
  /\ req[s].pc = "send"
  /\ Continues(s, Respond(req[s], 500, "error.message"))
  /\ UNCHANGED <<variant, TZ, usernameIndex, User, Churrasco, nextId, sent, issued, hist>>

\* The notification route on its own: these variants keep no state that the
\* route reads or writes.
InitNotify ==
  /\ variant \in NotifyVariants
  /\ TZ = "UTC"
  /\ usernameIndex = "none"
  /\ User = <<>> /\ Churrasco = <<>> /\ nextId = 1 /\ hist = <<>>
  /\ NoRequests

NextNotify ==
  \/ \E s \in Slots, p \in NotifyPayloads : PostSendNotification(s, p)
  \/ \E s \in Slots : SendResolves(s)
  \/ \E s \in Slots : SendRejects(s)

SpecNotify == InitNotify /\ [][NextNotify]_vars
\* -------------------------------------------------------------- properties

\* The position of the stored document with identifier id (_id, or id in
\* the in-memory variant), 0 when none is stored.
PositionOf(id) ==
  IF \E i \in 1..Len(Churrasco) : IdOf(Churrasco[i]) = id
    THEN CHOOSE i \in 1..Len(Churrasco) : IdOf(Churrasco[i]) = id
    ELSE 0

IsStored(id) == PositionOf(id) # 0

\* The stored document with identifier id (defined when IsStored(id)).
Stored(id) == Churrasco[PositionOf(id)]

\* The acknowledged writes of the history with operation op on churrasco id.
Acks(op, id) == SelectSeq(hist, LAMBDA e : e.op = op /\ e.id = id)

\* The body submitted when churrasco id was created.
Submitted(id) == Acks("create", id)[1].body

Count(arr, x) == Cardinality({i \in 1..Len(arr) : arr[i] = x})

RECURSIVE ItemsOf(_)
ItemsOf(acks) ==
  IF acks = <<>> THEN <<>>
  ELSE Head(acks).body.selectedItems.elems \o ItemsOf(Tail(acks))

GuestOf(e) == [name |-> e.body.name, items |-> e.body.selectedItems.elems]

\* C1: no acknowledged contribution is lost, also when confirm-presenca and
\* decline-presenca requests on one churrasco overlap: a stored churrasco
\* holds, for every acknowledged confirmation, its guest entry and its items
\* at least as often as they were acknowledged (on top of the items
\* submitted at creation), and every acknowledged decline's name.
C1_NoContributionLost ==
  \A id \in 1..(nextId - 1) :
    IsStored(id) =>
      LET c  == Stored(id)
          cs == Acks("confirm", id)
          ds == Acks("decline", id)
      IN  /\ \A k \in 1..Len(cs) :
               Count(c.guestsConfirmed, GuestOf(cs[k]))
                 >= Cardinality({j \in 1..Len(cs) : GuestOf(cs[j]) = GuestOf(cs[k])})
          /\ \A x \in {"charcoal", "beer", "ice"} :
               Count(c.fornecidos, x)
                 >= Count(Submitted(id).fornecidos.elems, x) + Count(ItemsOf(cs), x)
          /\ \A k \in 1..Len(ds) :
               Count(c.guestsDeclined, ds[k].body.name)
                 >= Cardinality({j \in 1..Len(ds) : ds[j].body.name = ds[k].body.name})

\* C1's case: two requests on the same stored churrasco were both
\* acknowledged, and the second had loaded the document before the first
\* saved it (both loaded the same version).
C1_Witness ==
  \E i, j \in 1..Len(hist) :
    /\ i < j
    /\ hist[i].op \in {"confirm", "decline"}
    /\ hist[j].op \in {"confirm", "decline"}
    /\ hist[i].id = hist[j].id
    /\ hist[i].loaded = hist[j].loaded
    /\ IsStored(hist[i].id)

\* C2: the fornecidos of a stored churrasco are the items submitted at its
\* creation followed by the selectedItems of its acknowledged confirmations,
\* in the order of their acknowledgement, duplicates kept; nothing else
\* (a rejected request, a decline) contributes.
C2_ProvidedItemsAreConcatenation ==
  \A id \in 1..(nextId - 1) :
    IsStored(id) =>
      Stored(id).fornecidos =
        Submitted(id).fornecidos.elems \o ItemsOf(Acks("confirm", id))

\* C2's case: a churrasco created with an item, after two confirmations
\* with items, one of them bringing an item the other brought too.
C2_Witness ==
  \E id \in 1..(nextId - 1) :
    /\ IsStored(id)
    /\ Len(Acks("confirm", id)) = 2
    /\ Submitted(id).fornecidos.elems # <<>>
    /\ Count(Stored(id).fornecidos, "beer") = 2

\* C3: the guestsConfirmed of a stored churrasco is the list of {name,
\* items} of its acknowledged confirmations, in order, one entry per
\* confirmation, a repeated name included.
C3_ConfirmedGuestsOnePerCall ==
  \A id \in 1..(nextId - 1) :
    IsStored(id) =>
      LET cs == Acks("confirm", id)
      IN  Stored(id).guestsConfirmed = [k \in 1..Len(cs) |-> GuestOf(cs[k])]

\* C3's case: the same name has confirmed twice.
C3_Witness ==
  \E id \in 1..(nextId - 1) :
    /\ IsStored(id)
    /\ \E i, j \in 1..Len(Stored(id).guestsConfirmed) :
         /\ i # j
         /\ Stored(id).guestsConfirmed[i].name = Stored(id).guestsConfirmed[j].name
    /\ Count(Stored(id).fornecidos, "beer") = 2

\* A step that answers a request: the request is issued and answered in one
\* step, or a waiting request leaves its slot.  res' is then its response.
Answered ==
  \/ issued' = issued + 1 /\ req' = req
  \/ \E s \in Slots : req[s].pc # "idle" /\ req'[s].pc = "idle"

\* The messages of the 400 responses that validation gives.
ValidationMessages ==
  {"Dados incompletos", "Payload invalido", "Dados invalidos", "Nome e obrigatorio"}

\* C4: validation runs before any mutation: the step that answers a create,
\* confirm, decline, register or login request with a validation error
\* leaves the User and Churrasco collections as they were and hands nothing
\* to the transport, and that request has written nothing before.
C4_ValidationBeforeMutation ==
  [][ (Answered /\ res'.status = 400 /\ res'.message \in ValidationMessages)
        => (UNCHANGED <<User, Churrasco, sent>> /\ ~res'.wrote) ]_vars

\* C4's case: a create request was rejected by validation while a churrasco
\* and users are stored.
C4_Witness ==
  /\ res.op = "create"
  /\ res.status = 400
  /\ res.message \in ValidationMessages
  /\ Churrasco # <<>>
  /\ User # <<>>

\* Churrasco id is stored with the fields that were submitted at its
\* creation (and at least the submitted items).
StoredAsSubmitted(id) ==
  /\ IsStored(id)
  /\ LET c == Stored(id)
         b == Submitted(id)
     IN  /\ c.churrascoDate = b.churrascoDate
         /\ c.hora = b.hora
         /\ c.local = b.local
         /\ c.invitedUsers = b.invitedUsers.elems
         /\ c.createdBy = Acks("create", id)[1].by
         /\ Len(c.fornecidos) >= Len(b.fornecidos.elems)
         /\ SubSeq(c.fornecidos, 1, Len(b.fornecidos.elems)) = b.fornecidos.elems

Cancelled(id) == Acks("cancel", id) # <<>>

\* C5: in create the dispatch comes after the churrasco is persisted, and a
\* failed dispatch does not roll it back: every multicast handed to the
\* transport is for a churrasco that was created, a create request that
\* waits for User.find or for the transport has its churrasco stored, and
\* after a create request was answered 500 its churrasco is still stored
\* with the submitted fields (unless a cancel request deleted it).
C5_DispatchAfterPersistNoRollback ==
  /\ \A k \in 1..Len(sent) : Acks("create", sent[k].churrascoId) # <<>>
  /\ \A s \in Slots :
       req[s].pc \in {"User.find", "sendMulticast"} =>
         /\ req[s].made # 0
         /\ StoredAsSubmitted(req[s].made) \/ Cancelled(req[s].made)
  /\ (res.op = "create" /\ res.status = 500) =>
       /\ res.made # 0
       /\ StoredAsSubmitted(res.made) \/ Cancelled(res.made)

\* C5's case: the dispatch of a create request failed and the churrasco it
\* created is stored.
C5_Witness ==
  /\ res.op = "create"
  /\ res.status = 500
  /\ IsStored(res.made)
  /\ \E k \in 1..Len(sent) : sent[k].churrascoId = res.made

\* C6: once create has persisted the churrasco, the request is answered as
\* a success with the new id, whatever the dispatch does.
C6_CreateAlwaysSucceeds ==
  (res.op = "create" /\ res.made # 0) => (res.status = 201 /\ res.newId = res.made)

\* The ids of the churrascos of a response or of a list of documents.
IdsOf(churrascos) == [k \in 1..Len(churrascos) |-> IdOf(churrascos[k])]

\* C7: the pending invites of u are exactly the stored churrascos that were
\* created with u among the invited users and for which no confirmation and
\* no decline with the name u was acknowledged (in store order).
C7_PendingInvitesExact ==
  \A u \in Usernames :
    LET Expected(c) ==
          /\ includes(Submitted(c._id).invitedUsers.elems, u)
          /\ \A e \in {hist[k] : k \in 1..Len(hist)} :
               (e.op \in {"confirm", "decline"} /\ e.id = c._id) => e.body.name # u
    IN  IdsOf(pendingInvites(Churrasco, u)) =
          [k \in 1..Len(SelectSeq(Churrasco, Expected)) |->
             SelectSeq(Churrasco, Expected)[k]._id]

\* C7's case: bob, who was invited to a stored churrasco, has declined: it
\* is no longer among his pending invites, and still among alice's.
C7_Witness ==
  \E id \in 1..(nextId - 1) :
    /\ IsStored(id)
    /\ \E k \in 1..Len(hist) :
         hist[k].op = "decline" /\ hist[k].id = id /\ hist[k].body.name = "bob"
    /\ includes(Stored(id).invitedUsers, "bob")
    /\ ~includes(IdsOf(pendingInvites(Churrasco, "bob")), id)
    /\ includes(IdsOf(pendingInvites(Churrasco, "alice")), id)

\* C8: a pending-invites read by an authenticated caller for
\* another user is answered 403 and discloses no invite.
C8_AuthorizeSelf ==
  (res.op = "invites" /\ res.user # "" /\ res.user # res.target) =>
    (res.status = 403 /\ res.churrascos = <<>>)

\* C9: a request to a guarded route whose X-User header is absent or names
\* no registered user is answered 401 and waits for no database or
\* transport operation but the lookup of authMiddleware (for none at all
\* when the header is absent): the step in which the lookup settles for a
\* header that names no registered user answers 401; and the step that
\* answers 401 changes neither collection and hands nothing to the
\* transport.
C9_Unauthenticated ==
  /\ [](/\ (res.op \in AuthOps /\ (res.hdr = "" \/ indexByUsername(User, res.hdr) = 0))
             => (res.status = 401 /\ ~res.wrote /\ res.made = 0)
        /\ \A s \in Slots :
             (req[s].pc # "idle" /\ req[s].op \in AuthOps)
               => /\ req[s].hdr # ""
                  /\ req[s].pc # "User.findOne"
                       => indexByUsername(User, req[s].hdr) # 0)
  /\ [][ \A s \in Slots :
           ( /\ req[s].pc = "User.findOne"
             /\ req[s].op \in AuthOps
             /\ req'[s] # req[s]
             /\ indexByUsername(User, req[s].hdr) = 0 )
             => ( /\ req'[s].pc = "idle"
                  /\ res'.op = req[s].op
                  /\ res'.hdr = req[s].hdr
                  /\ res'.status = 401 ) ]_vars
  /\ [][ (Answered /\ res'.status = 401)
           => UNCHANGED <<User, Churrasco, sent, hist>> ]_vars

\* C9's case: a create request whose header names a user that is not
\* registered was answered 401.
C9_Witness ==
  /\ res.op = "create"
  /\ res.hdr = "alice"
  /\ indexByUsername(User, "alice") = 0
  /\ res.status = 401

\* A date DD/MM/YYYY of the calendar and an hour HH:MM of the day, and the
\* instant they name in the zone of the server.
DigitsAt(s, P) == \A i \in P : IsDigit(s[i])

TwoDigits(s, i) == DigitVal(s[i]) * 10 + DigitVal(s[i + 1])

YearOf(s) == TwoDigits(s, 7) * 100 + TwoDigits(s, 9)

IsLeap(y) == (y % 4 = 0 /\ y % 100 # 0) \/ y % 400 = 0

DaysIn(m, y) ==
  IF m \in {4, 6, 9, 11} THEN 30
  ELSE IF m = 2 THEN (IF IsLeap(y) THEN 29 ELSE 28)
  ELSE 31

WellFormed(c) ==
  /\ IsText(c.churrascoDate) /\ IsText(c.hora)
  /\ Len(c.churrascoDate) = 10
  /\ c.churrascoDate[3] = "/" /\ c.churrascoDate[6] = "/"
  /\ DigitsAt(c.churrascoDate, {1, 2, 4, 5, 7, 8, 9, 10})
  /\ TwoDigits(c.churrascoDate, 4) \in 1..12
  /\ TwoDigits(c.churrascoDate, 1) \in
       1..DaysIn(TwoDigits(c.churrascoDate, 4), YearOf(c.churrascoDate))
  /\ YearOf(c.churrascoDate) >= 1970
  /\ Len(c.hora) = 5
  /\ c.hora[3] = ":"
  /\ DigitsAt(c.hora, {1, 2, 4, 5})
  /\ TwoDigits(c.hora, 1) <= 23
  /\ TwoDigits(c.hora, 4) <= 59

LeapDaysBefore(y) == ((y - 1) \div 4) - ((y - 1) \div 100) + ((y - 1) \div 400)

RECURSIVE DaysBeforeMonth(_, _)
DaysBeforeMonth(m, y) ==
  IF m = 1 THEN 0 ELSE DaysBeforeMonth(m - 1, y) + DaysIn(m - 1, y)

\* The day since 01/01/1970 and the millisecond of the day on the local
\* calendar.
LocalDay(c) ==
  LET y == YearOf(c.churrascoDate)
      m == TwoDigits(c.churrascoDate, 4)
      d == TwoDigits(c.churrascoDate, 1)
  IN  365 * (y - 1970) + LeapDaysBefore(y) - LeapDaysBefore(1970)
        + DaysBeforeMonth(m, y) + d - 1

LocalMs(c) == (TwoDigits(c.hora, 1) * 60 + TwoDigits(c.hora, 4)) * 60000

\* The local time (day, ms) of the zone TZ as an instant.
InstantAt(day, ms) == AddMs(day, ms, -LocalOffset(TZ, day, ms))

Instant(c) == InstantAt(LocalDay(c), LocalMs(c))

\* The instant i is at or after the reading t of the clock.
NotBefore(i, t) == ~Before(i.day, i.ms, t.day, t.ms)

\* The Date that GET /churrascos of the variant that runs makes of c.
DateMade(c) ==
  IF variant = "memory" THEN eventDateSpread(TZ, c) ELSE eventDate(TZ, c)

\* The test of GET /churrascos of the variant that runs, on the Date dt it
\* has made of a churrasco.
ListedAt(dt, status, t) ==
  IF variant = "memory" THEN isPushed(status, DateLt(dt, t))
                        ELSE isListedAt(dt, status, t)

\* GET /churrascos of the variant that runs throws on what is stored.
ListFails == variant = "memory" /\ splitThrows(Churrasco)

\* The Date that GET /churrascos makes of c is Invalid Date.
Unparsable(c) == DateMade(c).nan

\* The churrasco of which GET /churrascos makes the Date dt is in the list
\* of the given status at the reading t of the clock; a list that fails
\* holds nothing.
InList(dt, status, t) == ~ListFails /\ ListedAt(dt, status, t)

\* A response of GET /churrascos with a status of active or past.
Classified ==
  res.op = "list" /\ res.status = 200 /\ res.query \in {"active", "past"}

\* A request for the list of status active or past was answered, and not
\* refused by authentication.
Asked ==
  res.op = "list" /\ res.query \in {"active", "past"} /\ res.status # 401

\* C10: at every reading now of the clock, a stored well-formed churrasco
\* is in exactly one of the lists of status active and past: in the active
\* one iff its instant is >= now (so also when it equals now), in the past
\* one iff its instant is < now; and every answer to a request for one of
\* the two lists is a list (200) that holds a stored well-formed churrasco
\* iff it is on the side asked for at the now of the request.
C10_ActivePastPartition ==
  /\ \A k \in 1..Len(Churrasco) :
       WellFormed(Churrasco[k]) =>
         LET dt == DateMade(Churrasco[k])
             i  == Instant(Churrasco[k])
         IN  \A t \in ListNows :
               /\ InList(dt, "active", t) # InList(dt, "past", t)
               /\ InList(dt, "active", t) <=> NotBefore(i, t)
  /\ Asked =>
       \A k \in 1..Len(Churrasco) :
         WellFormed(Churrasco[k]) =>
           /\ res.status = 200
           /\ includes(IdsOf(res.churrascos), IdOf(Churrasco[k]))
                <=> ( (res.query = "active")
                        <=> NotBefore(Instant(Churrasco[k]), res.now) )

\* C10 for the three MongoDB variants, and for the in-memory variant while
\* every stored churrascoDate and hora is a text.
C10_ActivePastPartitionOfTexts ==
  ~ListFails => C10_ActivePastPartition

\* C10's other case: the in-memory variant holds a well-formed churrasco
\* and one whose churrascoDate or hora is a number.
C10_WitnessNumber ==
  /\ ListFails
  /\ \E k \in 1..Len(Churrasco) : WellFormed(Churrasco[k])

\* C10's case: in New York a list of status active was asked for at the very
\* instant of a stored churrasco, which is in the response.
C10_Witness ==
  /\ TZ = "America/New_York"
  /\ Classified
  /\ res.query = "active"
  /\ \E k \in 1..Len(Churrasco) :
       /\ WellFormed(Churrasco[k])
       /\ Instant(Churrasco[k]) = res.now
       /\ includes(IdsOf(res.churrascos), IdOf(Churrasco[k]))

\* C11: a response of GET /churrascos holds no stored churrasco whose
\* churrascoDate or hora does not make a valid Date, whatever the status
\* asked for, in every variant.
C11_MalformedExcluded ==
  (res.op = "list" /\ res.status = 200) =>
    \A k \in 1..Len(Churrasco) :
      Unparsable(Churrasco[k]) =>
        ~includes(IdsOf(res.churrascos), IdOf(Churrasco[k]))

\* C11 for the three MongoDB variants, whose filter does exclude such a
\* churrasco.
C11_MalformedExcludedMongo ==
  (variant # "memory" /\ res.op = "list" /\ res.status = 200) =>
    \A k \in 1..Len(Churrasco) :
      Unparsable(Churrasco[k]) =>
        ~includes(IdsOf(res.churrascos), IdOf(Churrasco[k]))

\* C11's case: a churrasco whose date makes no valid Date is stored next to
\* a well-formed one, and a list was answered that holds the well-formed
\* one only.
C11_Witness ==
  /\ Classified
  /\ \E i, j \in 1..Len(Churrasco) :
       /\ Unparsable(Churrasco[i])
       /\ WellFormed(Churrasco[j])
       /\ IdsOf(res.churrascos) = <<IdOf(Churrasco[j])>>

\* The routes that name a churrasco by :id.
ById == {"details", "confirm", "decline", "cancel"}

\* A step answers a details, confirm, decline or cancel request that got to
\* its lookup (past authentication, with a body that is not refused first)
\* and did not load a document, for an identifier that is not stored.
AnswersUnknown ==
  /\ Answered
  /\ res'.op \in ById
  /\ res'.id # -1
  /\ res'.status # 400
  /\ res'.doc = NoBody
  /\ ~IsStored(res'.id)

\* Once a cancel of id was acknowledged, id is not stored, a details request
\* for it is answered 404, and no response of GET /churrascos or of the
\* pending invites holds it.
CancelledIsGone ==
  \A id \in 0..nextId :
    Cancelled(id) =>
      /\ ~IsStored(id)
      /\ (res.op = "details" /\ res.id = id) => res.status = 404
      /\ (res.op \in {"list", "invites"} /\ res.status = 200)
           => ~includes(IdsOf(res.churrascos), id)

\* C12: a details, confirm, decline or cancel request for an identifier that
\* is not stored (never created, or cancelled) is answered 404 and changes
\* nothing; and once a cancel of id was acknowledged, id is not stored, a
\* details request for it is answered 404, and id is in no list of GET
\* /churrascos and in no user's pending invites.
C12_NotFound ==
  /\ []CancelledIsGone
  /\ [][ AnswersUnknown
           => ( /\ res'.status = 404
                /\ ~res'.wrote
                /\ UNCHANGED <<User, Churrasco, sent, hist>> ) ]_vars

\* C12 for the identifiers that MongoDB can look up (the text of an
\* ObjectId) and for every key of the in-memory variant.
C12_NotFoundWellFormed ==
  /\ []CancelledIsGone
  /\ [][ (AnswersUnknown /\ (variant = "memory" \/ IsObjectId(res'.id)))
           => ( /\ res'.status = 404
                /\ ~res'.wrote
                /\ UNCHANGED <<User, Churrasco, sent, hist>> ) ]_vars

\* C12's case: a churrasco was cancelled and a later details request for it
\* was answered 404.
C12_Witness ==
  /\ res.op = "details"
  /\ Cancelled(res.id)
  /\ res.status = 404

\* C12's other case: a details request for a text that is no ObjectId was
\* answered by the catch block.
C12_WitnessCastError ==
  /\ res.op = "details"
  /\ res.id = 0
  /\ res.status = 500

\* The response fields d carry the date, hour, place, creator and invited
\* users with which churrasco id was created.
CarriesSubmitted(d, id) ==
  /\ {"churrascoDate", "hora", "local", "createdBy"} \subseteq DOMAIN d
  /\ d.churrascoDate = Submitted(id).churrascoDate
  /\ d.hora = Submitted(id).hora
  /\ d.local = Submitted(id).local
  /\ d.createdBy = Acks("create", id)[1].by
  /\ "invitedUsers" \in DOMAIN d => d.invitedUsers = Submitted(id).invitedUsers.elems

\* A details response carries the fields of the creation.
DetailsCarrySubmitted ==
  (res.op = "details" /\ res.status = 200) =>
    /\ Len(res.churrascos) = 1
    /\ CarriesSubmitted(res.churrascos[1], res.id)

\* C13 for part_001: every details response carries its id and the date,
\* hour, place, creator and invited users of the creation, whatever
\* confirmations and declines came in between.
C13_RoundTripPart001 ==
  variant = "part_001" =>
    /\ DetailsCarrySubmitted
    /\ (res.op = "details" /\ res.status = 200) =>
         /\ res.churrascos[1].id = res.id
         /\ "invitedUsers" \in DOMAIN res.churrascos[1]

\* C13: every details response of part_001 and of the in-memory variant
\* carries the date, hour, place and creator of the creation (and the
\* invited users, where the variant stores them).
C13_RoundTrip ==
  variant \in {"part_001", "memory"} => DetailsCarrySubmitted

\* C13's case: the details of a churrasco were read after a confirmation of
\* presence was stored in it.
C13_Witness ==
  /\ res.op = "details"
  /\ res.status = 200
  /\ Acks("confirm", res.id) # <<>>
  /\ res.churrascos[1].guestsConfirmed # <<>>

\* The User.create of the register request in slot s settles in this step,
\* for a username that a stored user has.
SettlesForTaken(s) ==
  /\ req[s].pc = "User.create"
  /\ req'[s].pc = "idle"
  /\ indexByUsername(User, req[s].body.username) # 0

\* No two stored users have the same username.
UniqueUsernames ==
  \A i, j \in 1..Len(User) : User[i].username = User[j].username => i = j

\* C14: no two users have the same username, in every reachable state, so
\* also after register requests for the same username that overlap; and a
\* register request for a username that is taken is answered Conflict (409)
\* and leaves the User collection (so the existing user's displayName and
\* fcmTokens) as it was.
C14_RegisterConflict ==
  /\ []UniqueUsernames
  /\ [][ \A s \in Slots :
           SettlesForTaken(s)
             => ( /\ res'.op = "register"
                  /\ res'.status = 409
                  /\ ~res'.wrote
                  /\ User' = User ) ]_vars

\* C14 as far as the code goes: once the unique index is built no two users
\* have the same username, and a register request for a username that is
\* taken is then answered 400 'Username ja existe' and leaves the User
\* collection as it was; and no register request, whatever the state of
\* the index, changes a user that is stored.
C14_RegisterRefusedByIndex ==
  /\ [](usernameIndex = "built" => UniqueUsernames)
  /\ [][ \A s \in Slots :
           /\ (SettlesForTaken(s) /\ usernameIndex = "built")
                => ( /\ res'.op = "register"
                     /\ res'.status = 400
                     /\ res'.message = "Username ja existe"
                     /\ ~res'.wrote
                     /\ User' = User )
           /\ (req[s].pc = "User.create" /\ req'[s].pc = "idle")
                => \A i \in 1..Len(User) : User'[i] = User[i] ]_vars

\* C14's case: of two overlapping register requests for the username of
\* alice, who is stored, one was refused while the other still waits for
\* its User.create, and alice is as she was.
C14_Witness ==
  /\ res.op = "register"
  /\ res.message = "Username ja existe"
  /\ res.body = [username |-> "alice", displayName |-> "Alicia"]
  /\ \E s \in Slots :
       /\ req[s].pc = "User.create"
       /\ req[s].body.username = "alice"
  /\ User[indexByUsername(User, "alice")].displayName = "Alice"
  /\ User[indexByUsername(User, "alice")].fcmTokens # <<>>

\* C14's other case: two users of the same username are stored.
C14_WitnessDuplicate == ~UniqueUsernames /\ usernameIndex = "failed"

\* The set of the elements of a sequence.
Range(arr) == {arr[i] : i \in 1..Len(arr)}

\* The fcmTokens of the user named username, as a set.
TokensOf(username) == Range(User[indexByUsername(User, username)].fcmTokens)

\* C15: after a login request was answered 200 its token is among the
\* user's fcmTokens, and stays there: no step removes a user or a token.
\* When the User.findOne of a login settles, a login with a token the user
\* already has is answered 200 without any write (User is unchanged), a
\* login for an unknown username is answered 404 and changes nothing, and
\* any other goes on to its save.
C15_RecordLogin ==
  /\ []((res.op = "login" /\ res.status = 200) =>
          /\ indexByUsername(User, res.body.username) # 0
          /\ res.body.fcmToken \in TokensOf(res.body.username))
  /\ [][ /\ Len(User') >= Len(User)
         /\ \A i \in 1..Len(User) :
              /\ User'[i].username = User[i].username
              /\ Range(User[i].fcmTokens) \subseteq Range(User'[i].fcmTokens) ]_vars
  /\ [][ \A s \in Slots :
           (req[s].pc = "User.findOne" /\ req[s].op = "login" /\ req'[s] # req[s])
             => /\ UNCHANGED <<User, Churrasco, sent>>
                /\ IF indexByUsername(User, req[s].body.username) = 0
                     THEN /\ req'[s].pc = "idle"
                          /\ res'.body = req[s].body
                          /\ res'.status = 404
                     ELSE IF req[s].body.fcmToken \in TokensOf(req[s].body.username)
                       THEN /\ req'[s].pc = "idle"
                            /\ res'.body = req[s].body
                            /\ res'.status = 200
                            /\ ~res'.wrote
                       ELSE req'[s].pc = "u.save" ]_vars

\* C15's case: alice logged in with a new token, then again with the same
\* token: the second login was answered 200 and wrote nothing.
C15_Witness ==
  /\ res.op = "login"
  /\ res.status = 200
  /\ ~res.wrote
  /\ res.body = [username |-> "alice", fcmToken |-> "tb"]
  /\ User[indexByUsername(User, "alice")].fcmTokens = <<"ta", "tb">>

\* C15's other case: a login for a username that is not registered was
\* answered 404.
C15_WitnessUnknown ==
  /\ res.op = "login"
  /\ res.status = 404
  /\ res.body.username = "bob"

\* The fcmTokens of the first n users of the collection whose username is
\* in the set invited, one user after the other.
RECURSIVE TokensUpTo(_, _)
TokensUpTo(n, invited) ==
  IF n = 0 THEN <<>>
  ELSE TokensUpTo(n - 1, invited)
         \o (IF User[n].username \in invited THEN User[n].fcmTokens ELSE <<>>)

InvitedTo(id) == Range(Submitted(id).invitedUsers.elems)

\* C16: a create request hands at most one multicast to the transport; the
\* multicast is handed over in the step in which User.find resolves, its
\* token list is then exactly the fcmTokens of the registered users among
\* invitedUsers (never empty, no token of a user who is not invited), and
\* when there is no such token nothing is sent and the request is answered
\* 201 with the new id.
C16_MulticastTargets ==
  /\ [](\A k, l \in 1..Len(sent) : sent[k].churrascoId = sent[l].churrascoId => k = l)
  /\ [][ \A s \in Slots :
           (req[s].pc = "User.find" /\ req'[s].pc # "User.find") =>
             LET tokens == TokensUpTo(Len(User), InvitedTo(req[s].made)) IN
               IF tokens = <<>>
                 THEN /\ sent' = sent
                      /\ res'.status = 201
                      /\ res'.newId = req[s].made
                 ELSE /\ sent' = Append(sent, [churrascoId |-> req[s].made,
                                               tokens |-> tokens])
                      /\ req'[s].pc = "sendMulticast" ]_vars
  /\ [][ sent' # sent => \E s \in Slots : req[s].pc = "User.find" ]_vars

\* C16's case: bob alone was invited, and the multicast went to bob's token
\* only although alice has a token too.
C16_Witness ==
  \E k \in 1..Len(sent) :
    /\ InvitedTo(sent[k].churrascoId) = {"bob"}
    /\ sent[k].tokens = <<"tb">>
    /\ indexByUsername(User, "alice") # 0
    /\ TokensOf("alice") # {}

\* C16's other case: nobody was invited, nothing was sent, and the create
\* request was answered 201 with the id.
C16_WitnessEmpty ==
  /\ res.op = "create"
  /\ res.status = 201
  /\ res.newId = res.made
  /\ InvitedTo(res.made) = {}
  /\ \A k \in 1..Len(sent) : sent[k].churrascoId # res.made

\* The texts of elems[1..n] with a comma between each two.
RECURSIVE JoinedUpTo(_, _)
JoinedUpTo(elems, n) ==
  IF n = 0 THEN ""
  ELSE IF n = 1 THEN elems[1]
  ELSE JoinedUpTo(elems, n - 1) \o "," \o elems[n]

\* The placeholder the specification names for an absent list of items.
Placeholder == "Nenhum item fornecido"

\* The data field f of the message sent[k] is the text of the payload's
\* field: the elements joined with "," for an array, the empty text or the
\* placeholder for an absent, null or empty value, the text itself otherwise.
CoercedToText(k, f) ==
  LET v   == sent[k].payload.data[f]
      out == sent[k].message.data[f]
  IN  /\ out \in STRING
      /\ v.kind = "array" => out = JoinedUpTo(v.elems, Len(v.elems))
      /\ v.kind = "string" /\ v.s # "" => out = v.s
      /\ (v.kind \in {"undefined", "null"} \/ (v.kind = "string" /\ v.s = ""))
           => out \in {"", Placeholder}

NotifyDataFields ==
  {"id", "churrascoDate", "hora", "local", "fornecidos", "itensNaoFornecidos"}

\* C17: every data field of every message handed to the transport by the
\* notification route, in each of the three variants, is the text of the
\* payload's field (never "undefined" or "null" for an absent value).
C17_DataIsText ==
  \A k \in 1..Len(sent) :
    \A f \in DOMAIN sent[k].message.data :
      IF f \in NotifyDataFields THEN CoercedToText(k, f)
      ELSE sent[k].message.data[f] \in STRING

\* C17 for the in-memory (data-only) variant and part_000, whose messages are coerced.
C17_DataIsTextCoercing ==
  \A k \in 1..Len(sent) :
    sent[k].variant \in {"memory", "part_000"} =>
      \A f \in DOMAIN sent[k].message.data \cap NotifyDataFields : CoercedToText(k, f)

\* C17's case: messages were sent for a payload with an array of items and
\* for a payload without items.
C17_Witness ==
  \E k, l \in 1..Len(sent) :
    /\ sent[k].payload.data.fornecidos = List(<<"beer", "ice">>)
    /\ sent[k].message.data.fornecidos = "beer,ice"
    /\ sent[l].payload.data.fornecidos = Undefined
    /\ sent[l].variant = "mongo"

\* The stored record of churrasco id, or NoBody when none is stored.
RecordOf(id) == IF IsStored(id) THEN Stored(id) ELSE NoBody

\* The same after a step.
RecordAfter(id) ==
  IF \E j \in 1..Len(Churrasco') : IdOf(Churrasco'[j]) = id
    THEN Churrasco'[CHOOSE j \in 1..Len(Churrasco') : IdOf(Churrasco'[j]) = id]
    ELSE NoBody

\* The write that a step acknowledges, when it acknowledges one.
Acknowledges == Len(hist') = Len(hist) + 1 /\ SubSeq(hist', 1, Len(hist)) = hist

\* C18: no two stored churrascos have the same _id; a churrasco that is
\* stored before and after a step has the same invitedUsers, churrascoDate,
\* hora, local, createdBy and createdAt; and a stored churrasco is no longer
\* stored after a step only when that step acknowledges its cancellation.
C18_ImmutableFields ==
  /\ [](\A i, j \in 1..Len(Churrasco) : Churrasco[i]._id = Churrasco[j]._id => i = j)
  /\ [][ \A k \in 1..Len(Churrasco) :
           LET c == Churrasco[k] IN
             IF \E j \in 1..Len(Churrasco') : Churrasco'[j]._id = c._id
               THEN LET d == Churrasco'[CHOOSE j \in 1..Len(Churrasco') :
                                          Churrasco'[j]._id = c._id]
                    IN  /\ d.invitedUsers = c.invitedUsers
                        /\ d.churrascoDate = c.churrascoDate
                        /\ d.hora = c.hora
                        /\ d.local = c.local
                        /\ d.createdBy = c.createdBy
                        /\ d.createdAt = c.createdAt
               ELSE /\ Acknowledges
                    /\ hist'[Len(hist')] = [op |-> "cancel", id |-> c._id] ]_vars

\* C18's case: a churrasco took a confirmation and a decline and still has
\* the invited users of its creation.
C18_Witness ==
  \E k \in 1..Len(Churrasco) :
    /\ Churrasco[k].guestsConfirmed # <<>>
    /\ Churrasco[k].guestsDeclined # <<>>
    /\ Churrasco[k].invitedUsers = <<"alice", "bob">>

\* C19: the record of a churrasco (its being stored, and every field of it)
\* changes in a step only when that step acknowledges a create, confirm,
\* decline or cancel of that very id; the records of all other ids are the
\* same after the step, whatever other requests are waiting.
C19_Independence ==
  [][ \A id \in 1..nextId :
        RecordAfter(id) # RecordOf(id) =>
          /\ Acknowledges
          /\ hist'[Len(hist')].op \in {"create", "confirm", "decline", "cancel"}
          /\ hist'[Len(hist')].id = id ]_vars

\* C19's case: two churrascos are stored, a confirmation for the second was
\* stored, and the first is as it was created.
C19_Witness ==
  /\ Len(Churrasco) = 2
  /\ Acks("confirm", IdOf(Churrasco[2])) # <<>>
  /\ Churrasco[2].guestsConfirmed # <<>>
  /\ Churrasco[1] = Stores(variant, 1, ParkBody)

\* C20: a step that acknowledges a decline appends the name to the
\* guestsDeclined of that churrasco and changes no other field of it, and
\* no other churrasco; a step that acknowledges a confirmation leaves
\* guestsDeclined as it was.
C20_DeclineFrame ==
  [][ (Acknowledges /\ hist'[Len(hist')].op \in {"confirm", "decline"}) =>
        LET e == hist'[Len(hist')] IN
          /\ IsStored(e.id)
          /\ RecordAfter(e.id).guestsDeclined =
               IF e.op = "decline"
                 THEN Append(Stored(e.id).guestsDeclined, e.body.name)
                 ELSE Stored(e.id).guestsDeclined
          /\ e.op = "decline" =>
               RecordAfter(e.id) =
                 [Stored(e.id) EXCEPT !.guestsDeclined = Append(@, e.body.name)] ]_vars

\* C20's case: bob confirmed and then declined: he is among the confirmed
\* guests and among the declined guests, and his items are still provided.
C20_Witness ==
  \E k \in 1..Len(Churrasco) :
    /\ \E i \in 1..Len(Churrasco[k].guestsConfirmed) :
         Churrasco[k].guestsConfirmed[i].name = "bob"
    /\ includes(Churrasco[k].guestsDeclined, "bob")
    /\ includes(Churrasco[k].fornecidos, "ice")
    /\ hist[Len(hist)].op = "decline"

\* The contribution of the confirm or decline request r is in the record d:
\* its {name, items} entry is the last confirmed guest and its items are the
\* last provided items, or its name is the last declined guest.
ContributionIn(r, d) ==
  IF r.op = "confirm"
    THEN /\ d.guestsConfirmed # <<>>
         /\ d.guestsConfirmed[Len(d.guestsConfirmed)] =
              [name |-> r.body.name, items |-> r.body.selectedItems.elems]
         /\ Len(d.fornecidos) >= Len(r.body.selectedItems.elems)
         /\ SubSeq(d.fornecidos,
                   Len(d.fornecidos) - Len(r.body.selectedItems.elems) + 1,
                   Len(d.fornecidos)) = r.body.selectedItems.elems
    ELSE /\ d.guestsDeclined # <<>>
         /\ d.guestsDeclined[Len(d.guestsDeclined)] = r.body.name

\* C21: when the save of a confirm or decline request settles after the
\* churrasco it loaded was cancelled, the churrasco is not stored again, the
\* collection is unchanged and the request is answered 500, not a success;
\* when the churrasco is still stored, the request is answered 200 and its
\* contribution is in the stored record.  A cancelled id is never stored.
C21_CancelIsFinal ==
  /\ [](\A id \in 1..nextId : Cancelled(id) => ~IsStored(id))
  /\ [][ \A s \in Slots :
           (req[s].pc = "c.save" /\ req'[s].pc # "c.save") =>
             IF IsStored(req[s].id)
               THEN /\ res'.status = 200
                    /\ RecordAfter(req[s].id) # NoBody
                    /\ ContributionIn(req[s], RecordAfter(req[s].id))
               ELSE /\ res'.op = req[s].op
                    /\ res'.status = 500
                    /\ ~res'.wrote
                    /\ RecordAfter(req[s].id) = NoBody
                    /\ UNCHANGED <<Churrasco, hist>> ]_vars

\* C21's case: a confirm or decline request loaded a churrasco, the
\* churrasco was cancelled, and then the save of the request settled.
C21_Witness ==
  /\ res.op \in {"confirm", "decline"}
  /\ res.doc # NoBody
  /\ res.pc = "done"
  /\ Cancelled(res.id)
  /\ ~IsStored(res.id)

\* C23: no user's fcmTokens holds a token more than once.
C23_NoDuplicateTokens ==
  \A i \in 1..Len(User) :
    \A k, l \in 1..Len(User[i].fcmTokens) :
      User[i].fcmTokens[k] = User[i].fcmTokens[l] => k = l

\* C23's case: two login requests for the same user with the same token have
\* both found the token absent and both wait for their save.
C23_Witness ==
  /\ req[1].pc = "u.save" /\ req[2].pc = "u.save"
  /\ req[1].body = req[2].body
  /\ req[1].doc = req[2].doc
  /\ ~includes(req[1].doc.fcmTokens, req[1].body.fcmToken)

\* C24: the step that stores a new churrasco (Churrasco.create) stores it
\* for a request whose X-User header names a registered user, with that username as createdBy,
\* whatever creator the body names; and the createdBy of every stored
\* churrasco names a registered user.
C24_CreatedByIsCaller ==
  /\ [](\A k \in 1..Len(Churrasco) : indexByUsername(User, Churrasco[k].createdBy) # 0)
  /\ [][ Len(Churrasco') > Len(Churrasco) =>
           /\ Len(Churrasco') = Len(Churrasco) + 1
           /\ \E s \in Slots :
                /\ req[s].pc = "Churrasco.create"
                /\ req'[s].pc = "User.find"
                /\ req[s].hdr # ""
                /\ indexByUsername(User, req[s].hdr) # 0
                /\ Churrasco'[Len(Churrasco')].createdBy = req[s].hdr
                /\ Churrasco'[Len(Churrasco')]._id = req'[s].made ]_vars

\* C24's case: alice created a churrasco with a body that names bob as its
\* creator, and the stored churrasco is alice's.
C24_Witness ==
  \E k \in 1..Len(hist) :
    /\ hist[k].op = "create"
    /\ hist[k].body.userName = "bob"
    /\ IsStored(hist[k].id)
    /\ Stored(hist[k].id).createdBy = "alice"


\* ---------------------------------------------------------------- C22

\* The request in slot s waits for a database or transport operation that
\* its handler awaits (not for the lookup of authMiddleware).
Waiting(s) ==
  \/ req[s].pc \in AwaitedOps \cup {"sendMulticast"}
  \/ req[s].pc = "User.findOne" /\ req[s].op = "login"

\* C22: every inbound request eventually receives exactly one response,
\* also when the lookup of authentication, the store or the transport
\* fails: no request stays in its slot for ever, and the step in which a
\* request leaves its slot is the one that answers it.
C22_EveryRequestAnswered ==
  /\ \A s \in Slots : (req[s].pc # "idle") ~> (req[s].pc = "idle")
  /\ [][ \A s \in Slots :
           (req[s].pc # "idle" /\ req'[s].pc = "idle") =>
             res'.pc = "done" /\ res'.op = req[s].op /\ res'.hdr = req[s].hdr ]_vars

\* C22 (witness): the lookup of authentication rejected for a request that
\* carried an X-User header, and the request is in its slot, unanswered.
C22_Witness ==
  \E s \in Slots : req[s].pc = "unanswered" /\ req[s].hdr # "" /\ req[s].op \in AuthOps

\* C22 (the part that holds): a request that got past authentication is
\* answered whatever the store and the transport do, unless the process
\* ends under it; the step that takes it from its slot answers it, with
\* 500 when what it awaited rejected; and an unanswered request stays so.
C22_AnsweredPastAuthentication ==
  /\ \A s \in Slots : Waiting(s) ~> (req[s].pc \in {"idle", "unanswered"})
  /\ [][ \A s \in Slots :
           /\ (Waiting(s) /\ req'[s].pc = "idle") =>
                /\ res'.pc = "done" /\ res'.op = req[s].op /\ res'.hdr = req[s].hdr
                /\ res'.status \in {200, 201, 400, 404, 500}
           /\ req[s].pc = "unanswered" => req'[s] = req[s] ]_vars
====
